---- MODULE Spec2Model ----
(***************************************************************************)
(* A model of the draupnir request router: the radix tree that stores the  *)
(* static routes (tree package, router.go:422-766), the pattern matcher    *)
(* for dynamic routes (router.go:393-415) and the dispatch pipeline of     *)
(* Router.ServeHTTP / Router.executeHandler (router.go:252-312), and the   *)
(* services around it: the token-bucket RateLimiter (wschat.go:139-203),   *)
(* the WorkerPool (wp.go), route groups (router.go:15-138) and the         *)
(* WebSocket connection with its read and write pumps (ws.go:146-422).     *)
(*                                                                         *)
(* Strings are modelled as sequences of one-character strings, so that     *)
(* indexing, slicing and concatenation are the operations of the source.   *)
(***************************************************************************)
EXTENDS Integers, Sequences, FiniteSets, TLC

VARIABLES
    tree,        \* a tree.Tree: [root, size]
    present,     \* history variable: key -> last inserted value, or Absent
    walked,      \* the last Walk of the tree as it is: [called, stopAt,
                 \* visits, stopped]
    mpattern,    \* matchPattern's pattern argument
    mpath,       \* matchPattern's path argument
    mresult,     \* what matchPattern returned: [params, ok], once called
    phase,           \* "setup" while routes are registered, then "serving"
    staticRoutes,    \* Router.staticRoutes, a tree.Tree of route values
    dynamicRoutes,   \* Router.dynamicRoutes, in registration order
    middlewares,     \* Router.middlewares, in registration order
    rateLimiter,     \* Router.rateLimiter: [set, tokens, maxTokens]
    workerPool,      \* Router.workerPool: [set, tasks, size, wg]
    anyHandlers,     \* history variable: the handlers registered with ANY
    registrations,   \* history variable: the routes registered, in order
    request,         \* the request being served: [pc, method, path]
    w,               \* its http.ResponseWriter: [status, allow]
    served,          \* history variable: what ServeHTTP did for the request
    log,             \* history variable: middleware and handler bodies run
    pending,         \* the task executeHandler is about to submit
    done,            \* the task's done channel is closed
    limiter,     \* a RateLimiter on its own: [set, tokens, maxTokens]
    calls,       \* history variable: "ok"/"no" per Allow(), "tick" per refill
    refill,      \* the refillTokens goroutine and the quit channel: [pc,
                 \* quit, stops, panics]
    pool,         \* a WorkerPool on its own: [set, tasks, size, wg]
    tasksClosed,  \* close(wp.tasks) was executed
    submitters,   \* per goroutine calling Submit: [pc, task]
    workers,      \* per worker goroutine: [pc, task]
    shutdown,     \* the goroutine calling Shutdown: [pc, early]
    submitted,    \* history variable: Submit calls begun; the n-th is task n
    runs,         \* history variable: task -> times a worker ran it
    blockedTasks, \* history variable: tasks whose Submit met a full queue
    groups,      \* the RouterGroups created: [prefix, middlewares], where
                 \* middlewares is a slice [arr, len, cap]
    arrays,      \* the backing arrays of the groups' slices, by number
    captured,    \* per handler, the group its wrappedHandler closes over,
                 \* and as history the pattern it was registered with and
                 \* the list the group had at that time: [group, pattern, had]
    lineage,     \* history variable: per group [parent, prefix, inherited,
                 \* own]: the arguments of the Group and Use calls made
    conn,        \* a WebSocketConn and its websocketConnection
    closes,      \* history variable: Close() calls, times each resource
                 \* was closed, panics
    reader,      \* where readPump is: "select", "read" or "returned"
    writer,      \* where writePump is: "select" or "returned"
    app,         \* the handler ranging over ReceiveChan: [pc, got]
    peer,        \* the client and the ticker: [up, frames, pings,
                 \* closeRead, received]; closeRead: readPump read a close
                 \* frame; received: history of the text and binary
                 \* payloads readPump read
    inbound,     \* the frames the client sent that readFrame has not read
    written,     \* the frames writeFrame has written, in order
    sends,       \* history variable: per Send call [closed, result, tried]
    accepted,    \* history variable: the messages Send put on SendChan
    handshake,   \* one request to a WEBSOCKET endpoint: its headers, what
                 \* the server it runs on does, and what the handler did
    codec,       \* one frame through writeFrame and readFrame: [pc, opcode,
                 \* payload, stream, got]
    accept,      \* one call of generateAcceptKey: [pc, key, result]
    wire         \* the buffered writer both pumps write frames to: [stream,
                 \* pending, frames, writePump]

treeVars == <<tree, present, walked>>
matchVars == <<mpattern, mpath, mresult>>
configVars ==
    <<staticRoutes, dynamicRoutes, middlewares, anyHandlers, registrations>>
requestVars == <<request, w, served, log, pending, done>>
routerVars == <<phase, configVars, rateLimiter, workerPool, requestVars>>

limiterVars == <<limiter, calls, refill>>
poolVars ==
    <<pool, tasksClosed, submitters, workers, shutdown, submitted, runs,
      blockedTasks>>
groupVars == <<groups, arrays, captured, lineage>>
connVars ==
    <<conn, closes, reader, writer, app, peer, inbound, written, sends,
      accepted>>
serviceVars == <<limiterVars, poolVars, groupVars, connVars>>

handshakeVars == <<handshake>>
codecVars == <<codec>>
acceptVars == <<accept>>
wireVars == <<wire>>
protocolVars == <<handshakeVars, codecVars, acceptVars, wireVars>>

vars == <<treeVars, matchVars, routerVars, serviceVars, protocolVars>>

(***************************************************************************)
(* Bounds                                                                  *)
(***************************************************************************)
\* Insert is not taken once Tree.size has reached this value.
MaxSize == 8
\* The visitor passed to Walk returns true at its n-th call, n up to MaxStop,
\* or never.
MaxStop == 2

\* The frames each pump writes in SpecWire.
MaxWireFrames == 2
\* Longest pattern and longest path handed to matchPattern on its own.
MaxPatLen == 4
\* Most routes registered on one Router.
MaxRoutes == 2
\* The maxTokens the router's rate limiter is configured with.
BucketSize == 1
\* The number of workers the router's pool is configured with.
PoolSize == 1
\* The largest maxTokens a RateLimiter on its own is created with.
MaxTokens == 2
\* Most Allow() calls and refill ticks of one RateLimiter on its own.
MaxCalls == 8
\* Most Stop() calls on one RateLimiter.
MaxStops == 2
\* Most Submit calls on one WorkerPool on its own: with one worker, enough
\* to fill the queue of ten while the worker runs a task.
MaxTasks == 12
\* Most groups created on one Router, and most Use calls on its groups.
MaxGroups == 3
MaxUses == 3
\* Most routes registered on the groups of one Router.
MaxGroupRoutes == 1
\* The capacity SendChan is given here, in place of the 256 of
\* make(chan []byte, 256), so that a full queue is reached.
ChanCap == 2
\* The capacity ReceiveChan is given here, in place of its 256, so that the
\* frames of one client fill it.
ReceiveCap == 1
\* Most Send calls, frames sent by the client, Close() calls of the
\* application and ticks of the ping ticker, on one connection.
MaxSends == 3
MaxFrames == 2
MaxCloses == 1
MaxPings == 1

(***************************************************************************)
(* tree.Node and tree.Tree                                                 *)
(***************************************************************************)
\* The nil interface value stored in a node without a value.
Nil == "nil"

\* make(map[byte]*Node)
NoChildren == [b \in {} |-> Nil]

Node(key, value, hasValue, children) ==
    [key |-> key, value |-> value, hasValue |-> hasValue, children |-> children]

\* n.children[b] = c
SetChild(n, b, c) == [n EXCEPT !.children = (b :> c) @@ @]

\* delete(n.children, b)
RemoveChild(n, b) ==
    [n EXCEPT !.children = [x \in (DOMAIN @) \ {b} |-> @[x]]]

\* s[from:] of the source (0-based from), on 1-based sequences
Suffix(s, from) == SubSeq(s, from + 1, Len(s))

\* s[:to]
Prefix(s, to) == SubSeq(s, 1, to)

min(a, b) == IF a < b THEN a ELSE b

RECURSIVE cplLoop(_, _, _, _)
cplLoop(a, b, i, max) ==
    IF i < max /\ a[i + 1] = b[i + 1] THEN cplLoop(a, b, i + 1, max) ELSE i

commonPrefixLen(a, b) == cplLoop(a, b, 0, min(Len(b), Len(a)))

New == [root |-> Node(<<>>, Nil, FALSE, NoChildren), size |-> 0]

RECURSIVE insert(_, _, _)
insert(n, key, value) ==
    IF DOMAIN n.children = {}
    THEN SetChild(n, key[1], Node(key, value, TRUE, NoChildren))
    ELSE IF key[1] \notin DOMAIN n.children
    THEN SetChild(n, key[1], Node(key, value, TRUE, NoChildren))
    ELSE
      LET c == n.children[key[1]]
          prefixLen == commonPrefixLen(key, c.key)
      IN
      IF prefixLen = Len(key) /\ prefixLen = Len(c.key)
      THEN SetChild(n, key[1], [c EXCEPT !.value = value, !.hasValue = TRUE])
      ELSE IF prefixLen = Len(key)
      THEN
        LET childSuffix == Suffix(c.key, prefixLen)
            moved == Node(childSuffix, c.value, c.hasValue, c.children)
        IN SetChild(n, key[1],
              Node(key, value, TRUE,
                   IF childSuffix # <<>>
                   THEN (childSuffix[1] :> moved) @@ NoChildren
                   ELSE NoChildren))
      ELSE IF prefixLen = Len(c.key)
      THEN SetChild(n, key[1], insert(c, Suffix(key, prefixLen), value))
      ELSE
        LET childSuffix == Suffix(c.key, prefixLen)
            keySuffix == Suffix(key, prefixLen)
            oldChild == [c EXCEPT !.key = childSuffix]
            withOld == Node(Prefix(key, prefixLen), Nil, FALSE,
                            (childSuffix[1] :> oldChild) @@ NoChildren)
            newNode ==
              IF keySuffix # <<>>
              THEN SetChild(withOld, keySuffix[1],
                            Node(keySuffix, value, TRUE, NoChildren))
              ELSE [withOld EXCEPT !.value = value, !.hasValue = TRUE]
        IN SetChild(n, key[1], newNode)

TreeInsert(t, key, value) ==
    IF key = <<>> THEN t
    ELSE [root |-> insert(t.root, key, value), size |-> t.size + 1]

NotFound == [node |-> Node(<<>>, Nil, FALSE, NoChildren), found |-> FALSE]

RECURSIVE findLoop(_, _)
findLoop(n, key) ==
    IF DOMAIN n.children = {} THEN NotFound
    ELSE IF key[1] \notin DOMAIN n.children THEN NotFound
    ELSE
      LET c == n.children[key[1]] IN
      IF Len(c.key) > Len(key) THEN NotFound
      ELSE IF Prefix(key, Len(c.key)) # c.key THEN NotFound
      ELSE IF Len(c.key) = Len(key) THEN [node |-> c, found |-> TRUE]
      ELSE findLoop(c, Suffix(key, Len(c.key)))

findNode(t, key) == IF key = <<>> THEN NotFound ELSE findLoop(t.root, key)

Get_ignoresHasValue(t, key) ==
    LET r == findNode(t, key) IN
    IF ~r.found THEN [value |-> Nil, found |-> FALSE]
    ELSE [value |-> r.node.value, found |-> TRUE]

Get(t, key) ==
    LET r == findNode(t, key) IN
    IF ~r.found \/ ~r.node.hasValue THEN [value |-> Nil, found |-> FALSE]
    ELSE [value |-> r.node.value, found |-> TRUE]

\* What LongestPrefix returns when no node with a value lies on the path.
NoPrefix == [key |-> <<>>, value |-> Nil, found |-> FALSE]

\* The loop of LongestPrefix with the first node holding a value as its
\* answer: lastMatch is set once and never replaced.
RECURSIVE longestLoop_firstMatch(_, _, _, _)
longestLoop_firstMatch(n, key, prefix, lastMatch) ==
    LET last == IF n.hasValue /\ ~lastMatch.found
                THEN [key |-> prefix, value |-> n.value, found |-> TRUE]
                ELSE lastMatch
    IN  IF key = <<>> THEN last
        ELSE IF key[1] \notin DOMAIN n.children THEN last
        ELSE LET c == n.children[key[1]] IN
             IF Len(c.key) > Len(key) THEN last
             ELSE IF Prefix(key, Len(c.key)) # c.key THEN last
             ELSE longestLoop_firstMatch(c, Suffix(key, Len(c.key)),
                                         prefix \o c.key, last)

\* The loop of LongestPrefix: at node n, reached by the segments in prefix,
\* with key the rest of the key and lastMatch the deepest node with a value
\* seen so far.
RECURSIVE longestLoop(_, _, _, _)
longestLoop(n, key, prefix, lastMatch) ==
    LET last == IF n.hasValue
                THEN [key |-> prefix, value |-> n.value, found |-> TRUE]
                ELSE lastMatch
    IN  IF key = <<>> THEN last
        ELSE IF key[1] \notin DOMAIN n.children THEN last
        ELSE LET c == n.children[key[1]] IN
             IF Len(c.key) > Len(key) THEN last
             ELSE IF Prefix(key, Len(c.key)) # c.key THEN last
             ELSE longestLoop(c, Suffix(key, Len(c.key)),
                              prefix \o c.key, last)

\* Tree.LongestPrefix
LongestPrefix(t, key) ==
    IF key = <<>> THEN NoPrefix
    ELSE longestLoop(t.root, key, <<>>, NoPrefix)

\* delete returns the node as it is after the call and the reported result.
RECURSIVE delete(_, _)
delete(n, key) ==
    IF key = <<>> THEN [node |-> n, deleted |-> FALSE]
    ELSE IF key[1] \notin DOMAIN n.children THEN [node |-> n, deleted |-> FALSE]
    ELSE
      LET c == n.children[key[1]] IN
      IF Len(key) < Len(c.key) \/ Prefix(key, Len(c.key)) # c.key
      THEN [node |-> n, deleted |-> FALSE]
      ELSE IF Len(key) = Len(c.key)
      THEN
        IF DOMAIN c.children # {}
        THEN IF ~c.hasValue
             THEN [node |-> n, deleted |-> FALSE]
             ELSE [node |-> SetChild(n, key[1],
                                [c EXCEPT !.hasValue = FALSE, !.value = Nil]),
                   deleted |-> TRUE]
        ELSE [node |-> RemoveChild(n, key[1]), deleted |-> TRUE]
      ELSE
        LET sub == delete(c, Suffix(key, Len(c.key)))
            c2 == sub.node
        IN
        IF sub.deleted
        THEN
          IF ~c2.hasValue /\ Cardinality(DOMAIN c2.children) = 0
          THEN [node |-> RemoveChild(n, key[1]), deleted |-> TRUE]
          ELSE IF ~c2.hasValue /\ Cardinality(DOMAIN c2.children) = 1
          THEN
            LET b == CHOOSE x \in DOMAIN c2.children : TRUE
                grandchild == c2.children[b]
            IN [node |-> SetChild(n, key[1],
                            Node(c2.key \o grandchild.key, grandchild.value,
                                 grandchild.hasValue, grandchild.children)),
                deleted |-> TRUE]
          ELSE [node |-> SetChild(n, key[1], c2), deleted |-> TRUE]
        ELSE [node |-> n, deleted |-> FALSE]

\* The visit fn(key, value) of a Walk.
Visit(key, value) == [key |-> key, value |-> value]

\* What a walk has done: the visits made and whether fn returned true.
Walked(visits, stopped) == [visits |-> visits, stopped |-> stopped]

RECURSIVE walkChildren(_, _, _, _, _)

\* walk(n, prefix, fn) after the visits made so far, with an fn that returns
\* true at its stopAt-th call: the outcomes that the iteration orders of
\* the children maps allow.
walk_keyWithoutPrefix(n, prefix, visits, stopAt) ==
    LET after == IF n.hasValue
                 THEN Append(visits, Visit(n.key, n.value))
                 ELSE visits
    IN IF n.hasValue /\ Len(after) = stopAt
       THEN {Walked(after, TRUE)}
       ELSE walkChildren(n, prefix \o n.key, DOMAIN n.children, after,
                         stopAt)

RECURSIVE walk(_, _, _, _)
walk(n, prefix, visits, stopAt) ==
    LET after == IF n.hasValue
                 THEN Append(visits, Visit(prefix \o n.key, n.value))
                 ELSE visits
    IN IF n.hasValue /\ Len(after) = stopAt
       THEN {Walked(after, TRUE)}
       ELSE walkChildren(n, prefix \o n.key, DOMAIN n.children, after,
                         stopAt)

\* for _, c := range n.children over the children not yet visited: the
\* range takes them in any order and ends when a walk returns true.
walkChildren(n, prefix, rest, visits, stopAt) ==
    IF rest = {} THEN {Walked(visits, FALSE)}
    ELSE UNION { UNION { IF r.stopped THEN {r}
                         ELSE walkChildren(n, prefix, rest \ {b}, r.visits,
                                           stopAt) :
                         r \in walk(n.children[b], prefix, visits, stopAt) } :
                 b \in rest }

\* Tree.Walk
TreeWalk(t, stopAt) == walk(t.root, <<>>, <<>>, stopAt)

TreeDelete(t, key) ==
    LET r == delete(t.root, key) IN
    [tree |-> [root |-> r.node, size |-> IF r.deleted THEN t.size - 1 ELSE t.size],
     deleted |-> r.deleted]

(***************************************************************************)
(* matchPattern and splitPath                                              *)
(***************************************************************************)
\* strings.FieldsFunc(path, func(r rune) bool { return r == '/' }): the
\* maximal runs of characters other than '/', in order, none of them empty.
RECURSIVE fieldsLoop(_, _, _, _)
fieldsLoop(s, i, field, fields) ==
    IF i > Len(s)
    THEN IF field # <<>> THEN Append(fields, field) ELSE fields
    ELSE IF s[i] = "/"
    THEN fieldsLoop(s, i + 1, <<>>,
                    IF field # <<>> THEN Append(fields, field) ELSE fields)
    ELSE fieldsLoop(s, i + 1, Append(field, s[i]), fields)

splitPath(path) == fieldsLoop(path, 1, <<>>, <<>>)

\* make(map[string]string)
NoParams == [k \in {} |-> <<>>]

MatchFail == [params |-> NoParams, ok |-> FALSE]

\* The loop of matchPattern over patternParts, from index i on.
RECURSIVE matchLoop(_, _, _, _)
matchLoop(patternParts, pathParts, i, params) ==
    IF i > Len(patternParts) THEN [params |-> params, ok |-> TRUE]
    ELSE
      LET part == patternParts[i] IN
      IF Len(part) > 0 /\ part[1] = ":"
      THEN matchLoop(patternParts, pathParts, i + 1,
                     (Suffix(part, 1) :> pathParts[i]) @@ params)
      ELSE IF part # pathParts[i] THEN MatchFail
      ELSE matchLoop(patternParts, pathParts, i + 1, params)

matchPattern_noCountCheck(pattern, path) ==
    LET patternParts == splitPath(pattern)
        pathParts == splitPath(path)
    IN IF Len(patternParts) > Len(pathParts) THEN MatchFail
       ELSE matchLoop(patternParts, pathParts, 1, NoParams)

matchPattern(pattern, path) ==
    LET patternParts == splitPath(pattern)
        pathParts == splitPath(path)
    IN IF Len(patternParts) # Len(pathParts) THEN MatchFail
       ELSE matchLoop(patternParts, pathParts, 1, NoParams)

(***************************************************************************)
(* Router: routes, middleware chain, rate limiter, worker pool             *)
(***************************************************************************)
\* make(chan func(), size*10)
QueueFactor == 10

\* The zero route; its handler 0 stands for "no handler".
NoRoute == [method |-> "", pattern |-> <<>>, handler |-> 0]

NoLimiter == [set |-> FALSE, tokens |-> 0, maxTokens |-> 0]

NoPool == [set |-> FALSE, tasks |-> <<>>, size |-> 0, wg |-> 0]

NewRateLimiter(maxTokens) ==
    [set |-> TRUE, tokens |-> maxTokens, maxTokens |-> maxTokens]

NewWorkerPool(size) == [set |-> TRUE, tasks |-> <<>>, size |-> size, wg |-> 0]

\* strings.ContainsAny(pattern, ":*")
ContainsAny(pattern, chars) == \E i \in 1..Len(pattern) : pattern[i] \in chars

\* RateLimiter.Stop: close(rl.quit); closing a closed channel panics.
Stop(q) ==
    IF q.quit = "closed" THEN [q EXCEPT !.panics = @ + 1]
    ELSE [q EXCEPT !.quit = "closed"]

\* RateLimiter.Allow: the result and the limiter after the call.
Allow_unchecked(rl) == [ok |-> TRUE, rl |-> [rl EXCEPT !.tokens = @ - 1]]

Allow_keepsTokens(rl) == [ok |-> rl.tokens > 0, rl |-> rl]

Allow(rl) ==
    IF rl.tokens > 0
    THEN [ok |-> TRUE, rl |-> [rl EXCEPT !.tokens = @ - 1]]
    ELSE [ok |-> FALSE, rl |-> rl]

\* rt.method == req.Method || req.Method == http.MethodOptions
methodAllowed_noOptions(rt, method) == rt.method = method

methodAllowed(rt, method) == rt.method = method \/ method = "OPTIONS"

NoMatch == [found |-> FALSE, route |-> NoRoute, params |-> NoParams, scanned |-> 0]

\* for _, rt := range r.dynamicRoutes, from index i on; scanned counts the
\* routes matchPattern was called on.
RECURSIVE scanLast(_, _, _, _, _)
scanLast(routes, i, method, path, best) ==
    IF i > Len(routes) THEN [best EXCEPT !.scanned = Len(routes)]
    ELSE
      LET m == matchPattern(routes[i].pattern, path) IN
      scanLast(routes, i + 1, method, path,
               IF m.ok /\ methodAllowed(routes[i], method)
               THEN [found |-> TRUE, route |-> routes[i], params |-> m.params,
                     scanned |-> i]
               ELSE best)

scanDynamic_lastWins(routes, i, method, path) ==
    scanLast(routes, i, method, path, NoMatch)

RECURSIVE scanDynamic(_, _, _, _)
scanDynamic(routes, i, method, path) ==
    IF i > Len(routes) THEN [NoMatch EXCEPT !.scanned = Len(routes)]
    ELSE
      LET m == matchPattern(routes[i].pattern, path) IN
      IF m.ok /\ methodAllowed(routes[i], method)
      THEN [found |-> TRUE, route |-> routes[i], params |-> m.params,
            scanned |-> i]
      ELSE scanDynamic(routes, i + 1, method, path)

\* The route ServeHTTP settles on: kind is "dispatch", "405" or "404".
resolve_dynamicFirst(static, dynamic, method, path) ==
    LET val == Get(static, path)
        m == scanDynamic(dynamic, 1, method, path)
    IN IF m.found
       THEN [kind |-> "dispatch", route |-> m.route, params |-> m.params,
             scanned |-> m.scanned]
       ELSE IF val.found
       THEN IF methodAllowed(val.value, method)
            THEN [kind |-> "dispatch", route |-> val.value,
                  params |-> NoParams, scanned |-> m.scanned]
            ELSE [kind |-> "405", route |-> val.value, params |-> NoParams,
                  scanned |-> m.scanned]
       ELSE [kind |-> "404", route |-> NoRoute, params |-> NoParams,
             scanned |-> m.scanned]

resolve(static, dynamic, method, path) ==
    LET val == Get(static, path) IN
    IF val.found
    THEN IF methodAllowed(val.value, method)
         THEN [kind |-> "dispatch", route |-> val.value, params |-> NoParams,
               scanned |-> 0]
         ELSE [kind |-> "405", route |-> val.value, params |-> NoParams,
               scanned |-> 0]
    ELSE
      LET m == scanDynamic(dynamic, 1, method, path) IN
      IF m.found
      THEN [kind |-> "dispatch", route |-> m.route, params |-> m.params,
            scanned |-> m.scanned]
      ELSE [kind |-> "404", route |-> NoRoute, params |-> NoParams,
            scanned |-> m.scanned]

\* An http.HandlerFunc value: a route's handler, or a middleware's result
\* closing over the handler it wraps (next holds that one handler).
HandlerFunc(handler) ==
    [kind |-> "handler", mw |-> "", handler |-> handler, next |-> <<>>]

\* m(next) for a Middleware m
Wrap(m, next) == [kind |-> "mw", mw |-> m, handler |-> 0, next |-> <<next>>]

\* The middlewares of this model: m1 and m2 call next between their own
\* work before and after it; deny answers 403 itself and never calls next.
Middlewares == {"m1", "m2", "deny"}

CallsNext(m) == m # "deny"

Event(ev, m, handler) == [ev |-> ev, mw |-> m, handler |-> handler]

\* for i := len(r.middlewares) - 1; i >= 0; i-- { finalHandler = ... }
RECURSIVE wrapUp(_, _, _)
wrapUp(mws, i, finalHandler) ==
    IF i > Len(mws) THEN finalHandler
    ELSE wrapUp(mws, i + 1, Wrap(mws[i], finalHandler))

wrapLoop_firstInnermost(mws, i, finalHandler) == wrapUp(mws, 1, finalHandler)

RECURSIVE wrapLoop(_, _, _)
wrapLoop(mws, i, finalHandler) ==
    IF i < 1 THEN finalHandler
    ELSE wrapLoop(mws, i - 1, Wrap(mws[i], finalHandler))

\* finalHandler(w, req): the bodies run, in order, and the status written.
\* A route handler answers 200.
call_handlerTwice(h) ==
    [log |-> <<Event("handler", "", h.handler),
               Event("handler", "", h.handler)>>,
     status |-> 200]

RECURSIVE call(_)
call(h) ==
    IF h.kind = "handler"
    THEN [log |-> <<Event("handler", "", h.handler)>>, status |-> 200]
    ELSE IF CallsNext(h.mw)
    THEN LET inner == call(h.next[1]) IN
         [log |-> <<Event("enter", h.mw, 0)>> \o inner.log
                    \o <<Event("leave", h.mw, 0)>>,
          status |-> inner.status]
    ELSE [log |-> <<Event("enter", h.mw, 0), Event("leave", h.mw, 0)>>,
          status |-> 403]

\* Router.executeHandler up to the point where the chain runs: "limited"
\* (429 written), "submit" (a pool is configured) or "inline".
executeHandler_ignoresLimiter(r, handler) ==
    LET finalHandler == wrapLoop(r.middlewares, Len(r.middlewares),
                                 HandlerFunc(handler))
        gate == IF r.rateLimiter.set THEN Allow(r.rateLimiter)
                ELSE [ok |-> TRUE, rl |-> r.rateLimiter]
    IN [kind |-> IF r.workerPool.set THEN "submit" ELSE "inline",
        finalHandler |-> finalHandler, rateLimiter |-> gate.rl,
        allowed |-> IF ~r.rateLimiter.set THEN "unlimited"
                    ELSE IF gate.ok THEN "yes" ELSE "no"]

executeHandler(r, handler) ==
    LET finalHandler == wrapLoop(r.middlewares, Len(r.middlewares),
                                 HandlerFunc(handler))
        gate == IF r.rateLimiter.set THEN Allow(r.rateLimiter)
                ELSE [ok |-> TRUE, rl |-> r.rateLimiter]
    IN [kind |-> IF r.rateLimiter.set /\ ~gate.ok THEN "limited"
                 ELSE IF r.workerPool.set THEN "submit"
                 ELSE "inline",
        finalHandler |-> finalHandler, rateLimiter |-> gate.rl,
        allowed |-> IF ~r.rateLimiter.set THEN "unlimited"
                    ELSE IF gate.ok THEN "yes" ELSE "no"]

(***************************************************************************)
(* RouterGroup: the middlewares slice and the handler it wraps             *)
(***************************************************************************)
\* make([]Middleware, 0) and []Middleware{}: no element, no capacity.
EmptySlice == [arr |-> 0, len |-> 0, cap |-> 0]

\* The elements of slice sl over the backing arrays h.
View(h, sl) == SubSeq(h[sl.arr], 1, sl.len)

\* The capacity the allocator gives an array asked to hold n func values:
\* the size classes of 8, 16, 24, 32, 48, 64, ... bytes.
roundUpCap(n) == IF n <= 4 THEN n ELSE 2 * ((n + 1) \div 2)

\* The capacity append grows to (slices shorter than 256 double).
growCap(oldCap, newLen) ==
    roundUpCap(IF newLen > 2 * oldCap THEN newLen ELSE 2 * oldCap)

\* append(sl, xs...): in place when the capacity allows, otherwise into a
\* new array that gets a copy of sl's elements. The result is the new heap
\* and the slice returned.
append_neverAllocates(h, sl, xs) ==
    [arrays |-> [h EXCEPT ![sl.arr] = SubSeq(@, 1, sl.len) \o xs],
     slice |-> [arr |-> sl.arr, len |-> sl.len + Len(xs),
                cap |-> sl.len + Len(xs)]]

append(h, sl, xs) ==
    LET newLen == sl.len + Len(xs) IN
    IF newLen <= sl.cap
    THEN [arrays |-> [h EXCEPT ![sl.arr] =
                        [i \in 1..sl.cap |->
                           IF i <= sl.len \/ i > newLen THEN @[i]
                           ELSE xs[i - sl.len]]],
          slice |-> [sl EXCEPT !.len = newLen]]
    ELSE LET newCap == growCap(sl.cap, newLen)
             new == Cardinality(DOMAIN h)
         IN [arrays |-> h @@ (new :>
                          [i \in 1..newCap |->
                             IF i <= sl.len THEN h[sl.arr][i]
                             ELSE IF i <= newLen THEN xs[i - sl.len]
                             ELSE ""]),
             slice |-> [arr |-> new, len |-> newLen, cap |-> newCap]]

\* fullPattern := rg.prefix + pattern
fullPattern(rg, pattern) == rg.prefix \o pattern

\* RouterGroup.HandleFunc's loop over rg.middlewares, from the last to the
\* first: each round wraps the handler built so far in one middleware.
groupWrap_firstInnermost(mws, i, finalHandler) == wrapUp(mws, 1, finalHandler)

RECURSIVE groupWrap(_, _, _)
groupWrap(mws, i, finalHandler) ==
    IF i < 1 THEN finalHandler
    ELSE groupWrap(mws, i - 1, Wrap(mws[i], finalHandler))

\* The chain wrappedHandler builds and runs when it is called: it reads
\* rg.middlewares then, not when the route was registered.
wrappedHandler(mws, handler) == groupWrap(mws, Len(mws), HandlerFunc(handler))

(***************************************************************************)
(* WebSocketConn: Send, Close and the channel operations of the pumps      *)
(***************************************************************************)
\* A frame as writeFrame writes it: FIN set, its opcode and its payload.
WsFrame(opcode, payload) ==
    [fin |-> TRUE, opcode |-> opcode, payload |-> payload]

connClose_keepsStream(c, k) ==
    IF ~c.isClosed /\ ~c.closeOnce
    THEN [conn |-> [c EXCEPT !.closeChan = TRUE, !.isClosed = TRUE,
                             !.closeOnce = TRUE],
          closes |-> [k EXCEPT !.closeChan = @ + 1,
                               !.panics = @ + (IF c.closeChan THEN 1 ELSE 0)]]
    ELSE [conn |-> c, closes |-> k]

\* websocketConnection.close, with k counting what is closed.
connClose(c, k) ==
    IF ~c.isClosed /\ ~c.closeOnce
    THEN [conn |-> [c EXCEPT !.closeChan = TRUE, !.isClosed = TRUE,
                             !.closeOnce = TRUE, !.netConn = "closed"],
          closes |-> [k EXCEPT !.closeChan = @ + 1, !.netConn = @ + 1,
                               !.panics = @ + (IF c.closeChan THEN 1 ELSE 0)]]
    ELSE [conn |-> c, closes |-> k]

\* WebSocketConn.Close, under wsc.mu. Closing a closed channel panics.
Close_unguarded(c, k) ==
    IF c.sendClosed
    THEN [conn |-> c,
          closes |-> [k EXCEPT !.calls = @ + 1, !.SendChan = @ + 1,
                               !.panics = @ + 1]]
    ELSE connClose([c EXCEPT !.Closed = TRUE, !.sendClosed = TRUE],
                   [k EXCEPT !.calls = @ + 1, !.SendChan = @ + 1])

Close(c, k) ==
    IF ~c.Closed
    THEN IF c.sendClosed
         THEN [conn |-> [c EXCEPT !.Closed = TRUE],
               closes |-> [k EXCEPT !.calls = @ + 1, !.SendChan = @ + 1,
                                    !.panics = @ + 1]]
         ELSE connClose([c EXCEPT !.Closed = TRUE, !.sendClosed = TRUE],
                        [k EXCEPT !.calls = @ + 1, !.SendChan = @ + 1])
    ELSE [conn |-> c, closes |-> [k EXCEPT !.calls = @ + 1]]

\* WebSocketConn.Send, under wsc.mu: the connection after the call, the
\* error returned ("" for nil) and whether the send on SendChan was tried
\* on the closed channel, which panics.
Send_ignoresClosed(c, message) ==
    IF c.sendClosed
    THEN [conn |-> c, result |-> "panic", tried |-> TRUE]
    ELSE IF Len(c.SendChan) < ChanCap
    THEN [conn |-> [c EXCEPT !.SendChan = Append(@, message)],
          result |-> "", tried |-> FALSE]
    ELSE [conn |-> c, result |-> "send buffer full", tried |-> FALSE]

Send(c, message) ==
    IF c.Closed
    THEN [conn |-> c, result |-> "connection closed", tried |-> FALSE]
    ELSE IF c.sendClosed
    THEN [conn |-> c, result |-> "panic", tried |-> TRUE]
    ELSE IF Len(c.SendChan) < ChanCap
    THEN [conn |-> [c EXCEPT !.SendChan = Append(@, message)],
          result |-> "", tried |-> FALSE]
    ELSE [conn |-> c, result |-> "send buffer full", tried |-> FALSE]

\* message := <-wsc.SendChan on a channel that holds a message.
chanReceive_newest(ch) ==
    [message |-> ch[Len(ch)], rest |-> SubSeq(ch, 1, Len(ch) - 1)]

chanReceive(ch) == [message |-> Head(ch), rest |-> Tail(ch)]

\* readPump's select { case wsc.ReceiveChan <- payload: default: }: the
\* payload is put on the channel when it has room and dropped otherwise.
trySend_dropsOldest(ch, payload) ==
    IF Len(ch) < ReceiveCap THEN Append(ch, payload)
    ELSE Append(Tail(ch), payload)

trySend(ch, payload) ==
    IF Len(ch) < ReceiveCap THEN Append(ch, payload) ELSE ch

(***************************************************************************)
(* The WebSocket handshake: isWebSocketUpgrade, upgradeToWebSocket and the *)
(* handler Router.WEBSOCKET registers                                      *)
(***************************************************************************)
UpperCase ==
    <<"A", "B", "C", "D", "E", "F", "G", "H", "I", "J", "K", "L", "M", "N",
       "O", "P", "Q", "R", "S", "T", "U", "V", "W", "X", "Y", "Z">>

LowerCase ==
    <<"a", "b", "c", "d", "e", "f", "g", "h", "i", "j", "k", "l", "m", "n",
       "o", "p", "q", "r", "s", "t", "u", "v", "w", "x", "y", "z">>

\* strings.ToLower
ToLower(s) ==
    [i \in 1..Len(s) |->
        IF \E k \in 1..Len(UpperCase) : UpperCase[k] = s[i]
        THEN LowerCase[CHOOSE k \in 1..Len(UpperCase) : UpperCase[k] = s[i]]
        ELSE s[i]]

\* strings.Contains
Contains(s, substr) ==
    \E i \in 0..(Len(s) - Len(substr)) :
        SubSeq(s, i + 1, i + Len(substr)) = substr

\* A request's headers as r.Header.Get returns them ("" when absent).
Request(upgrade, connection, key) ==
    [upgrade |-> upgrade, connection |-> connection, key |-> key]

isWebSocketUpgrade(r) ==
    /\ ToLower(r.upgrade) = <<"w", "e", "b", "s", "o", "c", "k", "e", "t">>
    /\ Contains(ToLower(r.connection), <<"u", "p", "g", "r", "a", "d", "e">>)

\* What upgradeToWebSocket did: whether it returned a connection, whether
\* the raw stream was taken over (Hijack), whether the 101 response was
\* written and flushed, and the state of the raw stream.
Upgrade(ok, hijacked, switched, netConn) ==
    [ok |-> ok, hijacked |-> hijacked, switched |-> switched,
     netConn |-> netConn]

\* upgradeToWebSocket on a server whose ResponseWriter answers Hijack with
\* srv.hijack and whose stream answers the write of the response with
\* srv.write.
upgradeToWebSocket_ignoresKey(r, srv) ==
    IF ~isWebSocketUpgrade(r)
    THEN Upgrade(FALSE, FALSE, FALSE, "server")
    ELSE IF srv.hijack # "ok"
    THEN Upgrade(FALSE, FALSE, FALSE, "server")
    ELSE IF srv.write # "ok"
    THEN Upgrade(FALSE, TRUE, FALSE, "closed")
    ELSE Upgrade(TRUE, TRUE, TRUE, "open")

upgradeToWebSocket(r, srv) ==
    IF ~isWebSocketUpgrade(r)
    THEN Upgrade(FALSE, FALSE, FALSE, "server")
    ELSE IF r.key = <<>>
    THEN Upgrade(FALSE, FALSE, FALSE, "server")
    ELSE IF srv.hijack # "ok"
    THEN Upgrade(FALSE, FALSE, FALSE, "server")
    ELSE IF srv.write # "ok"
    THEN Upgrade(FALSE, TRUE, FALSE, "closed")
    ELSE Upgrade(TRUE, TRUE, TRUE, "open")

\* The handler WEBSOCKET registers: the status it answers with http.Error
\* (0 when none reaches the client: http.Error on a hijacked writer writes
\* nothing), what the upgrade did, whether the pumps were started and
\* whether the application handler was called.
websocketHandler(r, srv) ==
    IF ~isWebSocketUpgrade(r)
    THEN [status |-> 400, upgrade |-> Upgrade(FALSE, FALSE, FALSE, "server"),
          pumps |-> FALSE, handler |-> FALSE]
    ELSE LET up == upgradeToWebSocket(r, srv) IN
         IF ~up.ok
         THEN [status |-> IF up.hijacked THEN 0 ELSE 500, upgrade |-> up,
               pumps |-> FALSE, handler |-> FALSE]
         ELSE [status |-> 101, upgrade |-> up, pumps |-> TRUE,
               handler |-> TRUE]

(***************************************************************************)
(* The frame codec: writeFrame and readFrame over a stream of bytes        *)
(***************************************************************************)
OpContinuation == 0
OpText == 1
OpBinary == 2
OpClose == 8
OpPing == 9
OpPong == 10

\* a ^ b, bit by bit. (The halves are bound as values before the
\* recursive call, here and in the operators below, so that they are
\* computed once.)
RECURSIVE xor(_, _)
xor(a, b) ==
    IF a = 0 THEN b
    ELSE IF b = 0 THEN a
    ELSE CHOOSE r \in { 2 * xor(x, y) + ((a + b) % 2) :
                          x \in {a \div 2}, y \in {b \div 2} } : TRUE

\* binary.BigEndian.PutUint16 (k = 2) and PutUint64 (k = 8)
RECURSIVE PutUint(_, _)
PutUint(n, k) ==
    IF k = 0 THEN <<>> ELSE Append(PutUint(n \div 256, k - 1), n % 256)

\* binary.BigEndian.Uint16 and the low 31 bits of Uint64
RECURSIVE Uint(_)
Uint(bytes) ==
    IF bytes = <<>> THEN 0
    ELSE Uint(SubSeq(bytes, 1, Len(bytes) - 1)) * 256 + bytes[Len(bytes)]

\* Whether int64(Uint64(bytes)) is a length a payload can have here: the
\* upper 33 bits are zero.
FitsInt(bytes) ==
    /\ \A i \in 1..4 : bytes[i] = 0
    /\ bytes[5] < 128

\* The bytes writeFrame hands to the writer for one frame.
writeFrame_shortLength(opcode, payload) ==
    LET firstByte == 128 + (opcode % 16)
        length == Len(payload)
    IN IF length <= 126
       THEN <<firstByte, length>> \o payload
       ELSE IF length <= 65535
       THEN <<firstByte, 126>> \o PutUint(length, 2) \o payload
       ELSE <<firstByte, 127>> \o PutUint(length, 8) \o payload

writeFrame(opcode, payload) ==
    LET firstByte == 128 + (opcode % 16)
        length == Len(payload)
    IN IF length < 126
       THEN <<firstByte, length>> \o payload
       ELSE IF length <= 65535
       THEN <<firstByte, 126>> \o PutUint(length, 2) \o payload
       ELSE <<firstByte, 127>> \o PutUint(length, 8) \o payload

\* writeFrame's calls of writer.Write, in order: the first byte, the second
\* byte, the extended length when there is one, and the payload (written
\* even when it is empty).
writeFrameWrites(opcode, payload) ==
    LET firstByte == 128 + (opcode % 16)
        length == Len(payload)
    IN IF length < 126
       THEN << <<firstByte>>, <<length>>, payload >>
       ELSE IF length <= 65535
       THEN << <<firstByte>>, <<126>>, PutUint(length, 2), payload >>
       ELSE << <<firstByte>>, <<127>>, PutUint(length, 8), payload >>

\* What readFrame returns.
Read(opcode, payload, err, rest) ==
    [opcode |-> opcode, payload |-> payload, err |-> err, rest |-> rest]

readFrame_acceptsFragments(stream) ==
    IF Len(stream) < 2 THEN Read(0, <<>>, "EOF", <<>>)
    ELSE
      LET fin == stream[1] >= 128
          opcode == stream[1] % 16
          masked == stream[2] >= 128
          short == stream[2] % 128
          extended == IF short = 126 THEN 2 ELSE IF short = 127 THEN 8 ELSE 0
          keyAt == 2 + extended
          dataAt == keyAt + (IF masked THEN 4 ELSE 0)
      IN
      IF Len(stream) < dataAt THEN Read(0, <<>>, "EOF", <<>>)
      ELSE IF extended = 8 /\ ~FitsInt(SubSeq(stream, 3, 10))
      THEN Read(0, <<>>, "length", <<>>)
      ELSE
        LET payloadLen == IF extended = 0 THEN short
                          ELSE Uint(SubSeq(stream, 3, 2 + extended))
            maskingKey == SubSeq(stream, keyAt + 1, keyAt + 4)
            raw == SubSeq(stream, dataAt + 1, dataAt + payloadLen)
            payload == IF masked
                       THEN [i \in 1..payloadLen |->
                               xor(raw[i], maskingKey[((i - 1) % 4) + 1])]
                       ELSE raw
            rest == SubSeq(stream, dataAt + payloadLen + 1, Len(stream))
        IN
        IF Len(stream) < dataAt + payloadLen THEN Read(0, <<>>, "EOF", <<>>)
        ELSE Read(opcode, payload, "", rest)

readFrame_keepsMask(stream) ==
    IF Len(stream) < 2 THEN Read(0, <<>>, "EOF", <<>>)
    ELSE
      LET fin == stream[1] >= 128
          opcode == stream[1] % 16
          masked == stream[2] >= 128
          short == stream[2] % 128
          extended == IF short = 126 THEN 2 ELSE IF short = 127 THEN 8 ELSE 0
          keyAt == 2 + extended
          dataAt == keyAt + (IF masked THEN 4 ELSE 0)
      IN
      IF Len(stream) < dataAt THEN Read(0, <<>>, "EOF", <<>>)
      ELSE IF extended = 8 /\ ~FitsInt(SubSeq(stream, 3, 10))
      THEN Read(0, <<>>, "length", <<>>)
      ELSE
        LET payloadLen == IF extended = 0 THEN short
                          ELSE Uint(SubSeq(stream, 3, 2 + extended))
            maskingKey == SubSeq(stream, keyAt + 1, keyAt + 4)
            raw == SubSeq(stream, dataAt + 1, dataAt + payloadLen)
            payload == raw
            rest == SubSeq(stream, dataAt + payloadLen + 1, Len(stream))
        IN
        IF Len(stream) < dataAt + payloadLen THEN Read(0, <<>>, "EOF", <<>>)
        ELSE IF ~fin
        THEN Read(0, <<>>, "fragmented messages not supported", rest)
        ELSE Read(opcode, payload, "", rest)

\* readFrame on the bytes the stream holds: the opcode, the payload, the
\* error ("" for nil) and the bytes left in the stream. A read that finds
\* too few bytes fails once the stream ends.
readFrame(stream) ==
    IF Len(stream) < 2 THEN Read(0, <<>>, "EOF", <<>>)
    ELSE
      LET fin == stream[1] >= 128
          opcode == stream[1] % 16
          masked == stream[2] >= 128
          short == stream[2] % 128
          extended == IF short = 126 THEN 2 ELSE IF short = 127 THEN 8 ELSE 0
          keyAt == 2 + extended
          dataAt == keyAt + (IF masked THEN 4 ELSE 0)
      IN
      IF Len(stream) < dataAt THEN Read(0, <<>>, "EOF", <<>>)
      ELSE IF extended = 8 /\ ~FitsInt(SubSeq(stream, 3, 10))
      THEN Read(0, <<>>, "length", <<>>)
      ELSE
        LET payloadLen == IF extended = 0 THEN short
                          ELSE Uint(SubSeq(stream, 3, 2 + extended))
            maskingKey == SubSeq(stream, keyAt + 1, keyAt + 4)
            raw == SubSeq(stream, dataAt + 1, dataAt + payloadLen)
            payload == IF masked
                       THEN [i \in 1..payloadLen |->
                               xor(raw[i], maskingKey[((i - 1) % 4) + 1])]
                       ELSE raw
            rest == SubSeq(stream, dataAt + payloadLen + 1, Len(stream))
        IN
        IF Len(stream) < dataAt + payloadLen THEN Read(0, <<>>, "EOF", <<>>)
        ELSE IF ~fin
        THEN Read(0, <<>>, "fragmented messages not supported", rest)
        ELSE Read(opcode, payload, "", rest)

\* The bytes of a frame as a client puts them on the stream, in the layout
\* readFrame reads: FIN and opcode, mask bit and length, the extended
\* length, the masking key when masked, and the payload (xored with the key
\* when masked).
clientFrame(fin, opcode, maskingKey, payload) ==
    LET firstByte == (IF fin THEN 128 ELSE 0) + (opcode % 16)
        maskBit == IF maskingKey # <<>> THEN 128 ELSE 0
        length == Len(payload)
        data == IF maskingKey # <<>>
                THEN [i \in 1..length |->
                        xor(payload[i], maskingKey[((i - 1) % 4) + 1])]
                ELSE payload
    IN IF length < 126
       THEN <<firstByte, maskBit + length>> \o maskingKey \o data
       ELSE IF length <= 65535
       THEN <<firstByte, maskBit + 126>> \o PutUint(length, 2)
              \o maskingKey \o data
       ELSE <<firstByte, maskBit + 127>> \o PutUint(length, 8)
              \o maskingKey \o data

(***************************************************************************)
(* generateAcceptKey: SHA-1 (crypto/sha1) and base64 (encoding/base64)     *)
(* over bytes. A 32-bit word is a pair <<high 16 bits, low 16 bits>>.      *)
(***************************************************************************)
\* The printable ASCII characters, from code 32 to code 126; the double
\* quote, the backslash and the backtick are written by name.
Ascii ==
    <<" ", "!", "quote", "#", "$", "%", "&", "'", "(", ")", "*", "+", ",", "-",
    ".", "/", "0", "1", "2", "3", "4", "5", "6", "7", "8", "9", ":", ";",
    "<", "=", ">", "?", "@", "A", "B", "C", "D", "E", "F", "G", "H", "I",
    "J", "K", "L", "M", "N", "O", "P", "Q", "R", "S", "T", "U", "V", "W",
    "X", "Y", "Z", "[", "backslash", "]", "^", "_", "backtick", "a", "b", "c", "d", "e",
    "f", "g", "h", "i", "j", "k", "l", "m", "n", "o", "p", "q", "r", "s",
    "t", "u", "v", "w", "x", "y", "z", "{", "|", "}", "~">>

\* []byte(s)
Bytes(s) ==
    [i \in 1..Len(s) |-> 31 + CHOOSE k \in 1..Len(Ascii) : Ascii[k] = s[i]]

\* a & b, bit by bit
RECURSIVE and(_, _)
and(a, b) ==
    IF a = 0 \/ b = 0 THEN 0
    ELSE CHOOSE r \in { 2 * and(x, y) + ((a % 2) * (b % 2)) :
                          x \in {a \div 2}, y \in {b \div 2} } : TRUE

WordXor(a, b) == <<xor(a[1], b[1]), xor(a[2], b[2])>>

WordAnd(a, b) == <<and(a[1], b[1]), and(a[2], b[2])>>

WordOr(a, b) ==
    <<a[1] + b[1] - and(a[1], b[1]), a[2] + b[2] - and(a[2], b[2])>>

WordNot(a) == <<65535 - a[1], 65535 - a[2]>>

\* a + b on uint32
WordAdd(a, b) ==
    <<(a[1] + b[1] + ((a[2] + b[2]) \div 65536)) % 65536,
      (a[2] + b[2]) % 65536>>

\* 2^n
RECURSIVE Pow2(_)
Pow2(n) == IF n = 0 THEN 1 ELSE 2 * Pow2(n - 1)

\* bits.RotateLeft32(a, n), 0 < n < 32
RotateLeft(a, n) ==
    LET x == IF n >= 16 THEN <<a[2], a[1]>> ELSE a
        k == n % 16
    IN IF k = 0 THEN x
       ELSE <<((x[1] * Pow2(k)) % 65536) + (x[2] \div Pow2(16 - k)),
              ((x[2] * Pow2(k)) % 65536) + (x[1] \div Pow2(16 - k))>>

\* The message with the padding of SHA-1: 0x80, zeros up to 56 modulo 64,
\* and the length in bits as 8 big-endian bytes.
sha1Pad(msg) ==
    LET zeros == (119 - (Len(msg) % 64)) % 64
    IN msg \o <<128>> \o [i \in 1..zeros |-> 0] \o PutUint(Len(msg) * 8, 8)

\* The next word of the message schedule ws of the block that starts
\* after byte `at`.
sha1Word(p, at, ws) ==
    LET t == Len(ws) IN
    IF t < 16
    THEN <<p[at + 4 * t + 1] * 256 + p[at + 4 * t + 2],
           p[at + 4 * t + 3] * 256 + p[at + 4 * t + 4]>>
    ELSE CHOOSE r \in
           { RotateLeft(x, 1) :
               x \in { WordXor(y, z) :
                         y \in {WordXor(ws[t - 2], ws[t - 7])},
                         z \in {WordXor(ws[t - 13], ws[t - 15])} } } : TRUE

\* The message schedule ws extended by n words, the first half and then
\* the second.
RECURSIVE sha1Schedule(_, _, _, _)
sha1Schedule(p, at, ws, n) ==
    IF n = 0 THEN ws
    ELSE IF n = 1 THEN Append(ws, sha1Word(p, at, ws))
    ELSE CHOOSE r \in
           { sha1Schedule(p, at, half, n - (n \div 2)) :
               half \in {sha1Schedule(p, at, ws, n \div 2)} } : TRUE

sha1F(t, b, c, d) ==
    IF t < 20 THEN WordOr(WordAnd(b, c), WordAnd(WordNot(b), d))
    ELSE IF t < 40 THEN WordXor(WordXor(b, c), d)
    ELSE IF t < 60
    THEN WordOr(WordOr(WordAnd(b, c), WordAnd(b, d)), WordAnd(c, d))
    ELSE WordXor(WordXor(b, c), d)

sha1K(t) ==
    IF t < 20 THEN <<23170, 31129>>
    ELSE IF t < 40 THEN <<28377, 60321>>
    ELSE IF t < 60 THEN <<36635, 48348>>
    ELSE <<51810, 49622>>

\* Round t on the working variables v = <<a, b, c, d, e>>.
sha1Round(v, ws, t) ==
    CHOOSE r \in
      { <<WordAdd(WordAdd(WordAdd(a5, f), WordAdd(v[5], sha1K(t))),
                  ws[t + 1]),
          v[1], b30, v[3], v[4]>> :
        a5 \in {RotateLeft(v[1], 5)},
        f \in {sha1F(t, v[2], v[3], v[4])},
        b30 \in {RotateLeft(v[2], 30)} } : TRUE

\* The n rounds from round t on, the first half and then the second.
RECURSIVE sha1Rounds(_, _, _, _)
sha1Rounds(v, ws, t, n) ==
    IF n = 0 THEN v
    ELSE IF n = 1 THEN sha1Round(v, ws, t)
    ELSE CHOOSE r \in
           { sha1Rounds(half, ws, t + (n \div 2), n - (n \div 2)) :
               half \in {sha1Rounds(v, ws, t, n \div 2)} } : TRUE

\* The digest state h after the blocks that start after byte `at`.
RECURSIVE sha1Blocks(_, _, _)
sha1Blocks(h, p, at) ==
    IF at >= Len(p) THEN h
    ELSE CHOOSE r \in
           { sha1Blocks([i \in 1..5 |-> WordAdd(h[i], v[i])], p, at + 64) :
               v \in { sha1Rounds(h, ws, 0, 80) :
                         ws \in {sha1Schedule(p, at, <<>>, 80)} } } : TRUE

sha1Init ==
    <<<<26437, 8961>>, <<61389, 43913>>, <<39098, 56574>>,
      <<4146, 21622>>, <<50130, 57840>>>>

\* h := sha1.New(); h.Write(msg); h.Sum(nil): the 20 bytes of the digest.
sha1Sum(msg) ==
    CHOOSE r \in
      { [i \in 1..20 |->
           LET half == h[((i - 1) \div 4) + 1][(((i - 1) % 4) \div 2) + 1]
           IN IF i % 2 = 1 THEN half \div 256 ELSE half % 256] :
        h \in { sha1Blocks(sha1Init, p, 0) : p \in {sha1Pad(msg)} } } : TRUE

\* The alphabet of base64.StdEncoding.
encodeStd ==
    <<"A", "B", "C", "D", "E", "F", "G", "H", "I", "J", "K", "L", "M", "N",
    "O", "P", "Q", "R", "S", "T", "U", "V", "W", "X", "Y", "Z", "a", "b",
    "c", "d", "e", "f", "g", "h", "i", "j", "k", "l", "m", "n", "o", "p",
    "q", "r", "s", "t", "u", "v", "w", "x", "y", "z", "0", "1", "2", "3",
    "4", "5", "6", "7", "8", "9", "+", "/">>

\* base64.StdEncoding.EncodeToString
RECURSIVE EncodeToString(_)
EncodeToString(src) ==
    IF Len(src) = 0 THEN <<>>
    ELSE IF Len(src) = 1
    THEN <<encodeStd[(src[1] \div 4) + 1],
           encodeStd[((src[1] % 4) * 16) + 1], "=", "=">>
    ELSE IF Len(src) = 2
    THEN <<encodeStd[(src[1] \div 4) + 1],
           encodeStd[((src[1] % 4) * 16) + (src[2] \div 16) + 1],
           encodeStd[((src[2] % 16) * 4) + 1], "=">>
    ELSE <<encodeStd[(src[1] \div 4) + 1],
           encodeStd[((src[1] % 4) * 16) + (src[2] \div 16) + 1],
           encodeStd[((src[2] % 16) * 4) + (src[3] \div 64) + 1],
           encodeStd[(src[3] % 64) + 1]>>
         \o CHOOSE r \in { EncodeToString(rest) :
                             rest \in {SubSeq(src, 4, Len(src))} } : TRUE

WebSocketGUID ==
    <<"2", "5", "8", "E", "A", "F", "A", "5", "-", "E", "9", "1", "4", "-",
    "4", "7", "D", "A", "-", "9", "5", "C", "A", "-", "C", "5", "A", "B",
    "0", "D", "C", "8", "5", "B", "1", "1">>

generateAcceptKey_noGUID(key) ==
    CHOOSE r \in
      { EncodeToString(sum) :
          sum \in { sha1Sum(msg) : msg \in {Bytes(key)} } } : TRUE

generateAcceptKey(key) ==
    CHOOSE r \in
      { EncodeToString(sum) :
          sum \in { sha1Sum(msg) :
                      msg \in {Bytes(key \o WebSocketGUID)} } } : TRUE

(***************************************************************************)
(* WorkerPool: the tasks channel and the WaitGroup                         *)
(***************************************************************************)
Capacity_ofSize(p) == p.size

\* cap(wp.tasks)
Capacity(p) == p.size * QueueFactor

\* wp.tasks <- task on the open channel: the send proceeds when the buffer
\* has room, and waits otherwise.
chanSend_dropsWhenFull(p, task) ==
    [proceeds |-> TRUE,
     pool |-> IF Len(p.tasks) < Capacity(p)
              THEN [p EXCEPT !.tasks = Append(@, task)] ELSE p]

chanSend(p, task) ==
    [proceeds |-> Len(p.tasks) < Capacity(p),
     pool |-> [p EXCEPT !.tasks = Append(@, task)]]

\* wp.wg.Wait() returns when the counter is zero.
wgWait_returnsAtOnce(p) == TRUE

wgWait(p) == p.wg = 0

(***************************************************************************)
(* The state of each component before anything was done to it              *)
(***************************************************************************)
\* Keys that are prefixes of one another (a, ab, abc and b, ba), keys that
\* share a strict common prefix (abc and abb, ab and ac) and the empty key,
\* which Insert, Get and Delete reject.
Keys ==
    { <<>>, <<"a">>, <<"a", "b">>, <<"a", "b", "c">>, <<"a", "b", "b">>,
      <<"a", "c">>, <<"b">>, <<"b", "a">> }

Values == {"v1", "v2"}

Absent == "absent"

\* Walk was not called on the tree as it is.
NotWalked ==
    [called |-> FALSE, stopAt |-> 0, visits |-> <<>>, stopped |-> FALSE]

TreeStart ==
    /\ tree = New
    /\ present = [k \in Keys |-> Absent]
    /\ walked = NotWalked

NotCalled == [params |-> NoParams, ok |-> FALSE, called |-> FALSE]

MatchIdle ==
    /\ mpattern = <<>>
    /\ mpath = <<>>
    /\ mresult = NotCalled

NoRequest == [pc |-> "idle", method |-> "", path |-> <<>>]

NoResponse == [status |-> 0, allow |-> ""]

NotServed ==
    [called |-> FALSE, handler |-> 0, params |-> NoParams, scanned |-> 0,
     allowed |-> "", submitted |-> FALSE]

RequestIdle ==
    /\ request = NoRequest
    /\ w = NoResponse
    /\ served = NotServed
    /\ log = <<>>
    /\ pending = <<>>
    /\ done = FALSE

\* New(): a Router with an empty tree, no dynamic route, no middleware,
\* no rate limiter and no worker pool.
RouterNew ==
    /\ phase = "setup"
    /\ staticRoutes = New
    /\ dynamicRoutes = <<>>
    /\ middlewares = <<>>
    /\ rateLimiter = NoLimiter
    /\ workerPool = NoPool
    /\ anyHandlers = {}
    /\ registrations = <<>>
    /\ RequestIdle

\* No RateLimiter was created on its own.
\* refillTokens as NewRateLimiter starts it, and the quit channel it makes.
RefillStart ==
    [pc |-> "select", quit |-> "open", stops |-> 0, panics |-> 0]

LimiterIdle ==
    /\ limiter = NoLimiter
    /\ calls = <<>>
    /\ refill = RefillStart

\* No WorkerPool was created on its own.
PoolIdle ==
    /\ pool = NoPool
    /\ tasksClosed = FALSE
    /\ submitters = <<>>
    /\ workers = <<>>
    /\ shutdown = [pc |-> "idle", early |-> 0]
    /\ submitted = 0
    /\ runs = <<>>
    /\ blockedTasks = {}

\* The runtime's zero-size array, which every empty slice points to.
NoArrays == 0 :> <<>>

\* No RouterGroup was created.
GroupsIdle ==
    /\ groups = <<>>
    /\ arrays = NoArrays
    /\ captured = <<>>
    /\ lineage = <<>>

\* A WebSocketConn as WEBSOCKET creates it over an upgraded connection.
NewConn ==
    [Closed |-> FALSE, SendChan |-> <<>>, sendClosed |-> FALSE,
     ReceiveChan |-> <<>>, receiveClosed |-> FALSE, closeChan |-> FALSE,
     isClosed |-> FALSE, closeOnce |-> FALSE, netConn |-> "open"]

NoCloses ==
    [calls |-> 0, app |-> 0, SendChan |-> 0, closeChan |-> 0, netConn |-> 0,
     panics |-> 0]

\* The connection before any of its goroutines has taken a step.
ConnStart ==
    /\ conn = NewConn
    /\ closes = NoCloses
    /\ reader = "select"
    /\ writer = "select"
    /\ app = [pc |-> "loop", got |-> <<>>]
    /\ peer = [up |-> TRUE, frames |-> 0, pings |-> 0, closeRead |-> FALSE,
               received |-> <<>>]
    /\ inbound = <<>>
    /\ written = <<>>
    /\ sends = <<>>
    /\ accepted = <<>>

\* No connection is modelled: ConnStart, with no goroutine ever stepping.
ConnIdle == ConnStart

\* The handler has not run.
NoOutcome ==
    [status |-> 0, upgrade |-> Upgrade(FALSE, FALSE, FALSE, "server"),
     pumps |-> FALSE, handler |-> FALSE]

\* No request to a WEBSOCKET endpoint is modelled.
HandshakeIdle ==
    handshake = [pc |-> "none", r |-> Request(<<>>, <<>>, <<>>),
                 srv |-> [hijack |-> "ok", write |-> "ok"],
                 out |-> NoOutcome]

\* No frame is encoded or decoded.
CodecIdle ==
    codec = [pc |-> "none", opcode |-> 0, payload |-> <<>>, stream |-> <<>>,
             got |-> Read(0, <<>>, "", <<>>)]

\* generateAcceptKey is not called.
AcceptIdle == accept = [pc |-> "none", key |-> <<>>, result |-> <<>>]

\* The buffered writer of a connection neither pump has written to.
WireStart ==
    wire = [stream |-> <<>>,
            pending |-> [readPump |-> <<>>, writePump |-> <<>>],
            frames |-> [readPump |-> 0, writePump |-> 0],
            writePump |-> "select"]

\* No pump writes a frame.
WireIdle == WireStart

ProtocolIdle ==
    /\ HandshakeIdle
    /\ CodecIdle
    /\ AcceptIdle
    /\ WireIdle

ServicesIdle ==
    /\ LimiterIdle
    /\ PoolIdle
    /\ GroupsIdle
    /\ ConnIdle

(***************************************************************************)
(* The tree on its own: Insert and Delete over a set of keys               *)
(***************************************************************************)
TreeInit ==
    /\ TreeStart
    /\ MatchIdle
    /\ RouterNew
    /\ ProtocolIdle
    /\ ServicesIdle

Insert ==
    \E key \in Keys, value \in Values :
        /\ tree.size < MaxSize
        /\ tree' = TreeInsert(tree, key, value)
        /\ present' = IF key = <<>> THEN present
                      ELSE [present EXCEPT ![key] = value]
        /\ walked' = NotWalked
        /\ UNCHANGED <<matchVars, routerVars, serviceVars, protocolVars>>

Delete ==
    \E key \in Keys :
        /\ tree' = TreeDelete(tree, key).tree
        /\ present' = [present EXCEPT ![key] = Absent]
        /\ walked' = NotWalked
        /\ UNCHANGED <<matchVars, routerVars, serviceVars, protocolVars>>

TreeNext == Insert \/ Delete

SpecTree == TreeInit /\ [][TreeNext]_vars

\* C1: after any sequence of Insert and Delete, Get(k) returns the value of
\* the last Insert of k when k was inserted and not deleted afterwards, and
\* not-found for every key deleted after its last Insert or never inserted.
C1_GetReturnsLastInsert ==
    \A k \in Keys :
        IF present[k] = Absent
        THEN ~Get(tree, k).found
        ELSE Get(tree, k) = [value |-> present[k], found |-> TRUE]

\* A key was deleted while a longer key below it and a sibling sharing a
\* strict prefix are present, after a value was replaced.
C1_Witness ==
    /\ present[<<"a", "b">>] = Absent
    /\ present[<<"a", "b", "c">>] = "v2"
    /\ present[<<"a", "b", "b">>] = "v1"
    /\ present[<<"a">>] = "v1"
    /\ present[<<"b">>] = Absent
    /\ tree.size = 5
    /\ findNode(tree, <<"a", "b">>).found
    /\ ~Get(tree, <<"a", "b">>).found
    /\ Get(tree, <<"a", "b", "c">>).value = "v2"

(***************************************************************************)
(* matchPattern on its own: one call on a pattern and a path               *)
(***************************************************************************)
PatternChars == {"/", ":", "*", "a"}
PathChars == {"/", "a", "b"}

\* All sequences over S of length at most n.
SeqsUpTo(S, n) == UNION { [1..k -> S] : k \in 0..n }

MatchInit ==
    /\ mpattern \in SeqsUpTo(PatternChars, MaxPatLen)
    /\ mpath \in SeqsUpTo(PathChars, MaxPatLen)
    /\ mresult = NotCalled
    /\ TreeStart
    /\ RouterNew
    /\ ProtocolIdle
    /\ ServicesIdle

CallMatchPattern ==
    /\ ~mresult.called
    /\ mresult' = [params |-> matchPattern(mpattern, mpath).params,
                   ok |-> matchPattern(mpattern, mpath).ok,
                   called |-> TRUE]
    /\ UNCHANGED <<mpattern, mpath, treeVars, routerVars, serviceVars,
                   protocolVars>>

MatchNext == CallMatchPattern

SpecMatch == MatchInit /\ [][MatchNext]_vars

\* The segments of s, described by position rather than computed by a scan:
\* a segment starts where a character other than '/' stands first or
\* follows a '/', and ends before the next '/' or at the end of s.
SegStarts(s) == { i \in 1..Len(s) : s[i] # "/" /\ (i = 1 \/ s[i - 1] = "/") }

SegCount(s) == Cardinality(SegStarts(s))

Segment(s, n) ==
    LET from == CHOOSE i \in SegStarts(s) :
                    Cardinality({ j \in SegStarts(s) : j < i }) = n - 1
        to == CHOOSE j \in from..Len(s) :
                  /\ \A k \in from..j : s[k] # "/"
                  /\ (j = Len(s) \/ s[j + 1] = "/")
    IN SubSeq(s, from, to)

\* The positions of the pattern's ':name' segments.
ParamPositions(pattern) ==
    { n \in 1..SegCount(pattern) : Segment(pattern, n)[1] = ":" }

ParamName(pattern, n) == Tail(Segment(pattern, n))

\* C6: matchPattern splits pattern and path on '/' into non-empty segments
\* and succeeds exactly when the segment counts are equal and every pattern
\* segment not starting with ':' equals the path segment at its position;
\* unequal counts always fail; on success the result maps exactly the
\* ':name' names, each to the path segment at the position of that name
\* (a name that occurs twice has one entry, that of its last position).
C6_MatchPatternSegments ==
    mresult.called =>
      LET np == SegCount(mpattern)
          shouldMatch ==
            /\ np = SegCount(mpath)
            /\ \A n \in 1..np :
                 \/ n \in ParamPositions(mpattern)
                 \/ Segment(mpattern, n) = Segment(mpath, n)
      IN /\ mresult.ok = shouldMatch
         /\ np # SegCount(mpath) => ~mresult.ok
         /\ mresult.ok =>
              /\ DOMAIN mresult.params =
                   { ParamName(mpattern, n) : n \in ParamPositions(mpattern) }
              /\ \A n \in ParamPositions(mpattern) :
                   (\A later \in ParamPositions(mpattern) :
                        later > n =>
                          ParamName(mpattern, later) # ParamName(mpattern, n))
                   => mresult.params[ParamName(mpattern, n)] = Segment(mpath, n)

\* /:/a against /b/a: two segments each, a literal that agrees and a
\* ':' segment that captured the path's first segment.
C6_Witness ==
    /\ mresult.called
    /\ mresult.ok
    /\ mpattern = <<"/", ":", "/", "a">>
    /\ mpath = <<"/", "b", "/", "a">>
    /\ mresult.params[<<>>] = <<"b">>

\* The positions of the pattern's '*name' segments.
WildcardPositions(pattern) ==
    { n \in 1..SegCount(pattern) : Segment(pattern, n)[1] = "*" }

\* C7: a pattern with a wildcard segment '*name' matches a concrete path
\* whose other segments agree with it, and the wildcard segment captures the
\* path's segment at its position under its name.
C7_WildcardCaptures ==
    ( /\ mresult.called
      /\ WildcardPositions(mpattern) # {}
      /\ SegCount(mpattern) = SegCount(mpath)
      /\ \A n \in 1..SegCount(mpattern) :
           \/ n \in ParamPositions(mpattern)
           \/ n \in WildcardPositions(mpattern)
           \/ Segment(mpattern, n) = Segment(mpath, n) )
    => /\ mresult.ok
       /\ \A n \in WildcardPositions(mpattern) :
            /\ ParamName(mpattern, n) \in DOMAIN mresult.params
            /\ mresult.params[ParamName(mpattern, n)] = Segment(mpath, n)

(***************************************************************************)
(* The router: routes are registered, then requests are served             *)
(***************************************************************************)
RegisterMethods == {"GET", "POST"}
RequestMethods == {"GET", "POST", "OPTIONS"}

\* /a is static; /:x is dynamic and matches /a and /b.
RoutePatterns == { <<"/", "a">>, <<"/", ":", "x">> }
RequestPaths == { <<"/", "a">>, <<"/", "b">>, <<"/", "a", "/", "b">> }

\* The routes registered so far; the next handler is numbered one more.
Registered == staticRoutes.size + Len(dynamicRoutes)

RouterInit ==
    /\ TreeStart
    /\ MatchIdle
    /\ RouterNew
    /\ ProtocolIdle
    /\ ServicesIdle

Frame == UNCHANGED <<treeVars, matchVars, serviceVars, protocolVars>>

\* Router.Use. A middleware is registered at most once.
Use ==
    \E m \in Middlewares :
        /\ phase = "setup"
        /\ \A i \in 1..Len(middlewares) : middlewares[i] # m
        /\ middlewares' = Append(middlewares, m)
        /\ UNCHANGED <<phase, staticRoutes, dynamicRoutes, anyHandlers,
                       registrations,
                       rateLimiter, workerPool, requestVars>>
        /\ Frame

\* A registration that leaves a static path to the route it already has.
AddRoute_keepsFirst(method, pattern, handler) ==
    LET rt == [method |-> method, pattern |-> pattern, handler |-> handler] IN
    /\ registrations' = Append(registrations, rt)
    /\ IF ~ContainsAny(pattern, {":", "*"})
       THEN /\ staticRoutes' =
                  IF Get(staticRoutes, pattern).found
                  THEN [staticRoutes EXCEPT !.size = staticRoutes.size + 1]
                  ELSE TreeInsert(staticRoutes, pattern, rt)
            /\ UNCHANGED dynamicRoutes
       ELSE /\ dynamicRoutes' = Append(dynamicRoutes, rt)
            /\ UNCHANGED staticRoutes

\* The registration of Router.Handle and Router.HandleFunc.
AddRoute(method, pattern, handler) ==
    LET rt == [method |-> method, pattern |-> pattern, handler |-> handler] IN
    /\ registrations' = Append(registrations, rt)
    /\ IF ~ContainsAny(pattern, {":", "*"})
       THEN /\ staticRoutes' = TreeInsert(staticRoutes, pattern, rt)
            /\ UNCHANGED dynamicRoutes
       ELSE /\ dynamicRoutes' = Append(dynamicRoutes, rt)
            /\ UNCHANGED staticRoutes

\* Router.HandleFunc, and so GET, POST, ... which pass their method to it.
HandleFunc ==
    \E method \in RegisterMethods, pattern \in RoutePatterns :
        /\ phase = "setup"
        /\ Registered < MaxRoutes
        /\ AddRoute(method, pattern, Registered + 1)
        /\ UNCHANGED <<phase, middlewares, anyHandlers, rateLimiter,
                       workerPool, requestVars>>
        /\ Frame

\* Router.ANY
ANY ==
    \E pattern \in RoutePatterns :
        /\ phase = "setup"
        /\ Registered < MaxRoutes
        /\ AddRoute("GET", pattern, Registered + 1)
        /\ anyHandlers' = anyHandlers \cup {Registered + 1}
        /\ UNCHANGED <<phase, middlewares, rateLimiter, workerPool,
                       requestVars>>
        /\ Frame

\* Router.WithRateLimiter
WithRateLimiter ==
    /\ phase = "setup"
    /\ ~rateLimiter.set
    /\ rateLimiter' = NewRateLimiter(BucketSize)
    /\ UNCHANGED <<phase, configVars, workerPool, requestVars>>
    /\ Frame

\* Router.WithWorkerPool
WithWorkerPool ==
    /\ phase = "setup"
    /\ ~workerPool.set
    /\ workerPool' = NewWorkerPool(PoolSize)
    /\ UNCHANGED <<phase, configVars, rateLimiter, requestVars>>
    /\ Frame

\* Router.Start: registration is over, the server takes requests.
Start ==
    /\ phase = "setup"
    /\ phase' = "serving"
    /\ UNCHANGED <<configVars, rateLimiter, workerPool, requestVars>>
    /\ Frame

\* RateLimiter.refillTokens, one tick of its ticker.
refillTokens ==
    /\ phase = "serving"
    /\ rateLimiter.set
    /\ rateLimiter.tokens < rateLimiter.maxTokens
    /\ rateLimiter' = [rateLimiter EXCEPT !.tokens = rateLimiter.maxTokens]
    /\ UNCHANGED <<phase, configVars, workerPool, requestVars>>
    /\ Frame

\* Router.ServeHTTP on a new request, up to its return or, with a worker
\* pool, up to the Submit of executeHandler.
ServeHTTP ==
    \E method \in RequestMethods, path \in RequestPaths :
        /\ phase = "serving"
        /\ request.pc = "idle"
        /\ LET res == resolve(staticRoutes, dynamicRoutes, method, path)
               ex == executeHandler(
                         [middlewares |-> middlewares,
                          rateLimiter |-> rateLimiter,
                          workerPool |-> workerPool],
                         res.route.handler)
               ran == call(ex.finalHandler)
               sv == [called |-> res.kind = "dispatch",
                      handler |-> IF res.kind = "dispatch"
                                  THEN res.route.handler ELSE 0,
                      params |-> res.params, scanned |-> res.scanned,
                      allowed |-> IF res.kind = "dispatch"
                                  THEN ex.allowed ELSE "",
                      submitted |-> FALSE]
           IN
           /\ served' = sv
           /\ done' = FALSE
           /\ IF res.kind = "405"
              THEN /\ w' = [status |-> 405, allow |-> res.route.method]
                   /\ request' = [pc |-> "returned", method |-> method,
                                  path |-> path]
                   /\ log' = <<>>
                   /\ pending' = <<>>
                   /\ UNCHANGED rateLimiter
              ELSE IF res.kind = "404"
              THEN /\ w' = [status |-> 404, allow |-> ""]
                   /\ request' = [pc |-> "returned", method |-> method,
                                  path |-> path]
                   /\ log' = <<>>
                   /\ pending' = <<>>
                   /\ UNCHANGED rateLimiter
              ELSE IF ex.kind = "limited"
              THEN /\ w' = [status |-> 429, allow |-> ""]
                   /\ request' = [pc |-> "returned", method |-> method,
                                  path |-> path]
                   /\ log' = <<>>
                   /\ pending' = <<>>
                   /\ rateLimiter' = ex.rateLimiter
              ELSE IF ex.kind = "submit"
              THEN /\ w' = NoResponse
                   /\ request' = [pc |-> "submit", method |-> method,
                                  path |-> path]
                   /\ log' = <<>>
                   /\ pending' = <<ex.finalHandler>>
                   /\ rateLimiter' = ex.rateLimiter
              ELSE /\ w' = [status |-> ran.status, allow |-> ""]
                   /\ request' = [pc |-> "returned", method |-> method,
                                  path |-> path]
                   /\ log' = ran.log
                   /\ pending' = <<>>
                   /\ rateLimiter' = ex.rateLimiter
        /\ UNCHANGED <<phase, configVars, workerPool>>
        /\ Frame

\* WorkerPool.Submit as executeHandler calls it: wg.Add(1), then the send
\* on the tasks channel, which waits while size*10 tasks are queued.
Submit ==
    /\ request.pc = "submit"
    /\ Len(workerPool.tasks) < workerPool.size * QueueFactor
    /\ workerPool' = [workerPool EXCEPT !.wg = @ + 1,
                                        !.tasks = Append(@, pending[1])]
    /\ request' = [request EXCEPT !.pc = "waiting"]
    /\ served' = [served EXCEPT !.submitted = TRUE]
    /\ pending' = <<>>
    /\ UNCHANGED <<phase, configVars, rateLimiter, w, log, done>>
    /\ Frame

\* WorkerPool.worker, one round of its loop: it takes a task, runs it (the
\* task runs finalHandler and closes done) and calls wg.Done().
worker ==
    /\ workerPool.set
    /\ workerPool.tasks # <<>>
    /\ LET ran == call(Head(workerPool.tasks)) IN
       /\ w' = [status |-> ran.status, allow |-> ""]
       /\ log' = ran.log
    /\ done' = TRUE
    /\ workerPool' = [workerPool EXCEPT !.wg = @ - 1, !.tasks = Tail(@)]
    /\ UNCHANGED <<phase, configVars, rateLimiter, request, served, pending>>
    /\ Frame

Return_afterEnqueue ==
    /\ request.pc = "waiting"
    /\ request' = [request EXCEPT !.pc = "returned"]
    /\ UNCHANGED <<phase, configVars, rateLimiter, workerPool, w, served,
                   log, pending, done>>
    /\ Frame

\* executeHandler's <-done, after which it and ServeHTTP return.
Return ==
    /\ request.pc = "waiting"
    /\ done
    /\ request' = [request EXCEPT !.pc = "returned"]
    /\ UNCHANGED <<phase, configVars, rateLimiter, workerPool, w, served,
                   log, pending, done>>
    /\ Frame

\* The server is done with the request that returned and takes the next.
Finish ==
    /\ request.pc = "returned"
    /\ request' = NoRequest
    /\ w' = NoResponse
    /\ served' = NotServed
    /\ log' = <<>>
    /\ pending' = <<>>
    /\ done' = FALSE
    /\ UNCHANGED <<phase, configVars, rateLimiter, workerPool>>
    /\ Frame

Next ==
    \/ Use
    \/ HandleFunc
    \/ WithRateLimiter
    \/ WithWorkerPool
    \/ Start
    \/ refillTokens
    \/ ServeHTTP
    \/ Submit
    \/ worker
    \/ Return
    \/ Finish

Spec == RouterInit /\ [][Next]_vars

\* The same router with the ANY helper among its registrations.
NextAny == Next \/ ANY

SpecAny == RouterInit /\ [][NextAny]_vars

\* A request is being served or has been served.
Active == request.pc # "idle"

\* ServeHTTP has returned.
Returned == request.pc = "returned"

\* The static route registered for exactly the request path, if any.
StaticVal == Get(staticRoutes, request.path)

\* A pattern agrees with a path segment by segment, ':name' segments
\* agreeing with anything.
Matches(pattern, path) ==
    /\ SegCount(pattern) = SegCount(path)
    /\ \A n \in 1..SegCount(pattern) :
         \/ n \in ParamPositions(pattern)
         \/ Segment(pattern, n) = Segment(path, n)

\* C2: when the path has an exact static match whose method differs from
\* the request's and the request is not OPTIONS, the answer is 405 with
\* Allow set to the registered method, no handler or middleware runs and no
\* dynamic route is consulted; an OPTIONS request passes the method check
\* and the static route's handler is dispatched.
C2_StaticMethodMismatch ==
    (Active /\ StaticVal.found) =>
      LET rt == StaticVal.value IN
      /\ (rt.method # request.method /\ request.method # "OPTIONS") =>
           /\ Returned
           /\ w = [status |-> 405, allow |-> rt.method]
           /\ ~served.called
           /\ log = <<>>
           /\ served.scanned = 0
      /\ request.method = "OPTIONS" =>
           /\ served.called
           /\ served.handler = rt.handler
           /\ w.status # 405

\* POST /a against the static route GET /a, while a dynamic route POST /:x
\* that matches the path is registered too.
C2_Witness ==
    /\ Returned
    /\ request.method = "POST"
    /\ StaticVal.found
    /\ StaticVal.value.method = "GET"
    /\ w.status = 405
    /\ w.allow = "GET"
    /\ \E i \in 1..Len(dynamicRoutes) :
         /\ dynamicRoutes[i].method = "POST"
         /\ Matches(dynamicRoutes[i].pattern, request.path)

\* C3: a request whose path matches a dynamic route's pattern but whose
\* method is neither that route's nor OPTIONS, with no other route
\* matching, is answered 405 rather than 404.
C3_DynamicMethodMismatchIs405 ==
    ( /\ Returned
      /\ ~StaticVal.found
      /\ request.method # "OPTIONS"
      /\ \E i \in 1..Len(dynamicRoutes) :
           Matches(dynamicRoutes[i].pattern, request.path)
      /\ \A i \in 1..Len(dynamicRoutes) :
           Matches(dynamicRoutes[i].pattern, request.path)
             => dynamicRoutes[i].method # request.method )
    => w.status = 405

\* C4: whenever a static route is registered for exactly the request path,
\* the request is decided from that route alone, by dispatching it or by
\* 405, and no dynamic route is tried or dispatched, whatever was
\* registered first and even when a dynamic route matches path and method.
C4_StaticBeforeDynamic ==
    (Active /\ StaticVal.found) =>
      /\ served.scanned = 0
      /\ served.called => served.handler = StaticVal.value.handler
      /\ served.called \/ (Returned /\ w.status = 405)

\* The dynamic route GET /:x was registered before the static route GET /a;
\* GET /a went to the static route.
C4_Witness ==
    /\ Active
    /\ StaticVal.found
    /\ served.called
    /\ served.handler = StaticVal.value.handler
    /\ \E i \in 1..Len(dynamicRoutes) :
         /\ dynamicRoutes[i].handler < StaticVal.value.handler
         /\ dynamicRoutes[i].method = request.method
         /\ Matches(dynamicRoutes[i].pattern, request.path)

\* The registrations of a static route for the path, in order.
StaticRegistrations(path) ==
    SelectSeq(registrations,
              LAMBDA rt : rt.pattern = path /\ ~ContainsAny(path, {":", "*"}))

\* C39: the static route table holds at most one route per path, the one
\* registered last for it. After a second static route was registered for a
\* path under a different method, a request for the path with the first
\* method gets 405 with Allow naming the second method, and only the second
\* route's handler is dispatched for the path.
C39_LastStaticRouteReplaces ==
    \A path \in RoutePatterns :
        LET regs == StaticRegistrations(path)
            val == Get(staticRoutes, path)
        IN  /\ val.found <=> regs # <<>>
            /\ val.found => val.value = regs[Len(regs)]
            /\ ( /\ Len(regs) = 2
                 /\ regs[1].method # regs[2].method
                 /\ Active
                 /\ request.path = path )
               => /\ served.called => served.handler = regs[2].handler
                  /\ request.method = regs[1].method =>
                        /\ Returned
                        /\ ~served.called
                        /\ w = [status |-> 405, allow |-> regs[2].method]

\* GET /a was registered, then POST /a; a GET /a request was answered 405
\* with Allow: POST.
C39_Witness ==
    /\ registrations =
         << [method |-> "GET", pattern |-> <<"/", "a">>, handler |-> 1],
            [method |-> "POST", pattern |-> <<"/", "a">>, handler |-> 2] >>
    /\ Returned
    /\ request.method = "GET"
    /\ request.path = <<"/", "a">>
    /\ w = [status |-> 405, allow |-> "POST"]
    /\ ~served.called

\* The dynamic routes that match the request in path and method.
Candidates ==
    { i \in 1..Len(dynamicRoutes) :
        /\ Matches(dynamicRoutes[i].pattern, request.path)
        /\ \/ dynamicRoutes[i].method = request.method
           \/ request.method = "OPTIONS" }

\* C5: with no static route for the path, the dynamic route dispatched is
\* the earliest registered one whose pattern matches the path and whose
\* method is the request's (or the request is OPTIONS): a matching route
\* with another method is passed over, later routes are still tried, none
\* after the winner is, and the winner's ':name' segments are captured.
C5_FirstDynamicMatchWins ==
    (Active /\ ~StaticVal.found) =>
      IF Candidates = {}
      THEN ~served.called /\ served.scanned = Len(dynamicRoutes)
      ELSE LET first == CHOOSE i \in Candidates :
                            \A j \in Candidates : i <= j
               rt == dynamicRoutes[first]
           IN /\ served.called
              /\ served.handler = rt.handler
              /\ served.scanned = first
              /\ \A n \in ParamPositions(rt.pattern) :
                   served.params[ParamName(rt.pattern, n)]
                     = Segment(request.path, n)

\* Two dynamic routes match the path; the first has another method, so the
\* second one was dispatched.
C5_Witness ==
    /\ Active
    /\ ~StaticVal.found
    /\ Len(dynamicRoutes) = 2
    /\ Matches(dynamicRoutes[1].pattern, request.path)
    /\ dynamicRoutes[1].method # request.method
    /\ request.method # "OPTIONS"
    /\ served.called
    /\ served.handler = dynamicRoutes[2].handler
    /\ served.params[<<"x">>] = <<"b">>

\* C8: a route registered with ANY is dispatched for a request of every
\* method on its path.
C8_AnyServesEveryMethod ==
    /\ (Active /\ StaticVal.found /\ StaticVal.value.handler \in anyHandlers)
         => (served.called /\ served.handler = StaticVal.value.handler)
    /\ ( /\ Active
         /\ ~StaticVal.found
         /\ Len(dynamicRoutes) = 1
         /\ dynamicRoutes[1].handler \in anyHandlers
         /\ Matches(dynamicRoutes[1].pattern, request.path) )
         => (served.called /\ served.handler = dynamicRoutes[1].handler)

\* The first middleware, in registration order, that does not call next;
\* one past the last middleware when all of them do.
FirstStop ==
    LET stops == { i \in 1..Len(middlewares) : ~CallsNext(middlewares[i]) }
    IN IF stops = {} THEN Len(middlewares) + 1
       ELSE CHOOSE i \in stops : \A j \in stops : i <= j

\* What a dispatched request runs: m1 .. mk enter in registration order,
\* then the handler when every middleware called next, then mk .. m1 leave.
ExpectedLog ==
    LET n == Len(middlewares)
        depth == min(FirstStop, n)
        reached == IF FirstStop = n + 1 THEN 1 ELSE 0
    IN [ i \in 1..(2 * depth + reached) |->
           IF i <= depth THEN Event("enter", middlewares[i], 0)
           ELSE IF reached = 1 /\ i = depth + 1
           THEN Event("handler", "", served.handler)
           ELSE Event("leave", middlewares[2 * depth + reached + 1 - i], 0) ]

\* C9: with middlewares registered m1..mn, a dispatched request enters m1,
\* then m2, ..., then mn, then the handler, and leaves them in the order
\* mn..m1; a middleware that does not call next keeps every later
\* middleware and the handler from running.
C9_MiddlewareOrder ==
    (Returned /\ served.called /\ served.allowed # "no") =>
      /\ log = ExpectedLog
      /\ \A i \in 1..Len(log) :
           /\ log[i].ev = "handler" => FirstStop = Len(middlewares) + 1
           /\ log[i].ev = "enter" =>
                \E k \in 1..FirstStop : middlewares[k] = log[i].mw

\* m2 was registered before m1: m2 entered first and left last, around m1,
\* with the handler innermost.
C9_Witness ==
    /\ Returned
    /\ middlewares = <<"m2", "m1">>
    /\ served.called
    /\ log = << Event("enter", "m2", 0), Event("enter", "m1", 0),
                Event("handler", "", served.handler),
                Event("leave", "m1", 0), Event("leave", "m2", 0) >>

\* C10: when the rate limiter's Allow() returned false for a matched
\* request, the answer is 429, no handler or middleware body runs and
\* nothing is submitted to the worker pool; a handler or middleware body
\* runs only when there is no limiter or Allow() returned true.
C10_RateLimitedNeverRuns ==
    /\ (Active /\ served.allowed = "no") =>
         /\ Returned
         /\ w.status = 429
         /\ log = <<>>
         /\ ~served.submitted
         /\ pending = <<>>
         /\ workerPool.tasks = <<>>
         /\ workerPool.wg = 0
    /\ (log # <<>> \/ pending # <<>> \/ workerPool.tasks # <<>>) =>
         \/ served.allowed = "yes" /\ rateLimiter.set
         \/ served.allowed = "unlimited" /\ ~rateLimiter.set

\* A matched request was refused by the limiter of a router that has a
\* pool and two middlewares.
C10_Witness ==
    /\ Returned
    /\ served.called
    /\ served.allowed = "no"
    /\ rateLimiter.tokens = 0
    /\ workerPool.set
    /\ Len(middlewares) = 2
    /\ w.status = 429

\* The times the route's handler ran for the request.
HandlerRuns == Cardinality({ i \in 1..Len(log) : log[i].ev = "handler" })

\* The outcomes that hold of the request: the handler chain was dispatched
\* (the route matched and the limiter did not refuse), or one of the error
\* statuses was written.
Outcomes ==
    { o \in {"dispatched", "404", "405", "429", "503"} :
        \/ o = "dispatched" /\ served.called /\ served.allowed # "no"
        \/ o = "404" /\ w.status = 404
        \/ o = "405" /\ w.status = 405
        \/ o = "429" /\ w.status = 429
        \/ o = "503" /\ w.status = 503 }

\* C20: every routed request ends in exactly one outcome among handler
\* dispatched, 404, 405, 429 and 503; the handler runs at most once per
\* request and only in the dispatched outcome, and no error status is
\* written for a request whose handler ran.
C20_OneOutcome ==
    /\ HandlerRuns <= 1
    /\ HandlerRuns = 1 =>
         /\ Outcomes = {"dispatched"}
         /\ w.status \notin {404, 405, 429, 503}
    /\ Returned =>
         /\ Cardinality(Outcomes) = 1
         /\ Outcomes # {"dispatched"} => (log = <<>> /\ ~served.submitted)
         /\ w.status \in {404, 405} => ~served.called
         /\ w.status = 429 => served.allowed = "no"

\* A request passed the limiter, was run by the pool's worker under one
\* middleware and returned with the handler's answer.
C20_Witness ==
    /\ Returned
    /\ Outcomes = {"dispatched"}
    /\ served.submitted
    /\ served.allowed = "yes"
    /\ Len(middlewares) = 1
    /\ HandlerRuns = 1
    /\ w.status = 200

\* C33: when a worker pool is configured, executeHandler (and so
\* ServeHTTP) returns only after the submitted handler has run to completion
\* on a worker: the request-handling task waits on the completion signal,
\* not merely on the enqueue, and the handler's response writes all happen
\* before ServeHTTP returns. While the submitted request waits and done is
\* not closed nothing is written and it does not return; it returns with
\* the task taken from the queue, done closed and the response written; and
\* once it returned neither the response nor the log changes.
C33_ReturnsAfterCompletion ==
    /\ []((request.pc = "waiting" /\ ~done) =>
            (w = NoResponse /\ log = <<>> /\ workerPool.tasks # <<>>))
    /\ [][(request.pc = "waiting" /\ request'.pc = "returned") =>
            (done /\ w.status \in {200, 403} /\ log # <<>>
               /\ w' = w /\ log' = log)]_vars
    /\ []((request.pc = "returned" /\ served.submitted) =>
            (done /\ w.status \in {200, 403} /\ log # <<>>
               /\ workerPool.tasks = <<>> /\ workerPool.wg = 0))
    /\ [][(request.pc = "returned" /\ request'.pc = "returned") =>
            (w' = w /\ log' = log)]_vars

\* A request was submitted to the pool of a router without a rate limiter,
\* the worker ran its handler, and ServeHTTP returned after that with the
\* handler's answer.
C33_Witness ==
    /\ request.pc = "returned"
    /\ served.submitted
    /\ ~rateLimiter.set
    /\ workerPool.set /\ workerPool.tasks = <<>> /\ workerPool.wg = 0
    /\ done
    /\ HandlerRuns = 1
    /\ w.status = 200

(***************************************************************************)
(* A RateLimiter on its own: Allow() calls and refill ticks in any order   *)
(***************************************************************************)
LimiterInit ==
    /\ limiter \in { NewRateLimiter(n) : n \in 0..MaxTokens }
    /\ calls = <<>>
    /\ refill = RefillStart
    /\ TreeStart
    /\ MatchIdle
    /\ RouterNew
    /\ ProtocolIdle
    /\ PoolIdle
    /\ GroupsIdle
    /\ ConnIdle

\* What an action of the limiter leaves alone.
LimiterFrame ==
    UNCHANGED <<treeVars, matchVars, routerVars, poolVars, groupVars,
                connVars, protocolVars>>

\* One Allow() call; the mutex makes the call one step.
CallAllow ==
    /\ Len(calls) < MaxCalls
    /\ limiter' = Allow(limiter).rl
    /\ calls' = Append(calls, IF Allow(limiter).ok THEN "ok" ELSE "no")
    /\ UNCHANGED refill
    /\ LimiterFrame

\* One round of refillTokens' loop, on a tick of its ticker: under the
\* mutex, tokens = maxTokens.
refillTick ==
    /\ refill.pc = "select"
    /\ Len(calls) < MaxCalls
    /\ limiter' = [limiter EXCEPT !.tokens = limiter.maxTokens]
    /\ calls' = Append(calls, "tick")
    /\ UNCHANGED refill
    /\ LimiterFrame

\* refillTokens' select finds quit closed: it returns.
refillQuit ==
    /\ refill.pc = "select"
    /\ refill.quit = "closed"
    /\ refill' = [refill EXCEPT !.pc = "returned"]
    /\ UNCHANGED <<limiter, calls>>
    /\ LimiterFrame

\* One Stop() call, from any goroutine.
CallStop ==
    /\ refill.stops < MaxStops
    /\ refill' = [Stop(refill) EXCEPT !.stops = @ + 1]
    /\ UNCHANGED <<limiter, calls>>
    /\ LimiterFrame

LimiterNext == CallAllow \/ refillTick \/ refillQuit \/ CallStop

SpecLimiter == LimiterInit /\ [][LimiterNext]_vars

\* refillTokens is a goroutine the Go scheduler keeps running, and its
\* ticker is not ready all the time: with quit closed it takes that case.
LimiterFairness == WF_vars(refillQuit)

SpecLimiterFair == SpecLimiter /\ LimiterFairness

\* The Allow() calls made before call i since the last tick before it, or
\* since the limiter was created when no tick came before.
CallsSinceTick(i) ==
    LET ticks == { j \in 1..(i - 1) : calls[j] = "tick" }
        from == IF ticks = {} THEN 0
                ELSE CHOOSE j \in ticks : \A k \in ticks : k <= j
    IN Cardinality({ j \in (from + 1)..(i - 1) : calls[j] # "tick" })

\* C11: from a full bucket, maxTokens consecutive Allow() calls without a
\* tick in between all succeed, the next call fails and every further call
\* fails until a refill tick; after a tick exactly maxTokens more calls
\* succeed before the next failure. So a call succeeds exactly when fewer
\* than maxTokens calls were made since the last tick (or since creation).
C11_BucketPerTick ==
    \A i \in 1..Len(calls) :
        calls[i] # "tick" =>
            (calls[i] = "ok" <=> CallsSinceTick(i) < limiter.maxTokens)

\* Two calls succeed, two fail, a tick, two succeed and the third fails.
C11_Witness ==
    /\ limiter.maxTokens = 2
    /\ calls = <<"ok", "ok", "no", "no", "tick", "ok", "ok", "no">>

\* C34: in every reachable state 0 <= tokens <= maxTokens, and Allow() is
\* an atomic check-and-decrement: it succeeds exactly when tokens > 0 and
\* then takes one token; under any interleaving of Allow() callers and the
\* refill task, the Allow() calls that succeed between two consecutive
\* resets never exceed maxTokens, and each reset sets tokens to exactly
\* maxTokens.
C34_TokensWithinBucket ==
    /\ [](0 <= limiter.tokens /\ limiter.tokens <= limiter.maxTokens)
    /\ [](\A a \in 1..Len(calls) : \A b \in a..Len(calls) :
            (\A j \in a..b : calls[j] # "tick") =>
              Cardinality({ j \in a..b : calls[j] = "ok" })
                <= limiter.maxTokens)
    /\ [][calls' = Append(calls, "tick") =>
            limiter'.tokens = limiter.maxTokens]_vars
    /\ [][calls' = Append(calls, "ok") =>
            (limiter.tokens > 0 /\ limiter'.tokens = limiter.tokens - 1)]_vars
    /\ [][calls' = Append(calls, "no") =>
            (limiter.tokens = 0 /\ limiter'.tokens = 0)]_vars

\* A bucket of two: one call, a reset, two calls that succeed and one that
\* fails, a second reset and one more call, which leaves one token.
C34_Witness ==
    /\ limiter.maxTokens = 2
    /\ calls = <<"ok", "tick", "ok", "ok", "no", "tick", "ok">>
    /\ limiter.tokens = 1

\* C35: Stop() terminates the periodic refill task exactly once: after
\* Stop() returned the refill task eventually exits and performs no further
\* reset of tokens, and calling Stop() again (or concurrently) is harmless
\* and does not fail: no Stop() panics.
C35_StopTerminatesRefill ==
    /\ [](refill.panics = 0)
    /\ [][refill.pc = "returned" =>
            (refill'.pc = "returned" /\ limiter'.tokens <= limiter.tokens)]_vars
    /\ (refill.stops > 0) ~> (refill.pc = "returned")

(***************************************************************************)
(* A WorkerPool on its own: goroutines calling Submit, the workers and one *)
(* goroutine calling Shutdown, in any interleaving                         *)
(***************************************************************************)
\* The goroutines that call Submit: one, which calls it again and again,
\* so that within MaxTasks calls the queue of size*10 fills up.
Submitters == {1}

Tasks == 1..MaxTasks

PoolInit ==
    /\ pool = NewWorkerPool(PoolSize)
    /\ tasksClosed = FALSE
    /\ submitters = [s \in Submitters |-> [pc |-> "idle", task |-> 0]]
    /\ workers = [k \in 1..PoolSize |-> [pc |-> "recv", task |-> 0]]
    /\ shutdown = [pc |-> "idle", early |-> 0]
    /\ submitted = 0
    /\ runs = [t \in Tasks |-> 0]
    /\ blockedTasks = {}
    /\ TreeStart
    /\ MatchIdle
    /\ RouterNew
    /\ ProtocolIdle
    /\ LimiterIdle
    /\ GroupsIdle
    /\ ConnIdle

\* What an action of the pool leaves alone.
PoolFrame ==
    UNCHANGED <<treeVars, matchVars, routerVars, limiterVars, groupVars,
                connVars, protocolVars>>

\* Submit is called: wp.wg.Add(1).
SubmitAdd(s) ==
    /\ submitters[s].pc = "idle"
    /\ submitted < MaxTasks
    /\ submitted' = submitted + 1
    /\ pool' = [pool EXCEPT !.wg = @ + 1]
    /\ submitters' = [submitters EXCEPT
                         ![s] = [pc |-> "send", task |-> submitted + 1]]
    /\ blockedTasks' = IF Len(pool.tasks) = Capacity(pool) /\ ~tasksClosed
                       THEN blockedTasks \cup {submitted + 1}
                       ELSE blockedTasks
    /\ UNCHANGED <<tasksClosed, workers, shutdown, runs>>
    /\ PoolFrame

\* wp.tasks <- task, then return nil. A send on the closed channel panics,
\* and so does a send that was waiting when the channel was closed.
SubmitSend(s) ==
    /\ submitters[s].pc = "send"
    /\ IF tasksClosed
       THEN /\ submitters' = [submitters EXCEPT ![s].pc = "panic"]
            /\ UNCHANGED pool
       ELSE /\ chanSend(pool, submitters[s].task).proceeds
            /\ pool' = chanSend(pool, submitters[s].task).pool
            /\ submitters' = [submitters EXCEPT
                                 ![s] = [pc |-> "idle", task |-> 0]]
    /\ UNCHANGED <<tasksClosed, workers, shutdown, submitted, runs,
                   blockedTasks>>
    /\ PoolFrame

\* for task := range wp.tasks: the worker receives the next task, or leaves
\* the loop when the channel is closed and empty.
workerReceive(k) ==
    /\ workers[k].pc = "recv"
    /\ IF pool.tasks # <<>>
       THEN /\ workers' = [workers EXCEPT
                             ![k] = [pc |-> "run", task |-> Head(pool.tasks)]]
            /\ pool' = [pool EXCEPT !.tasks = Tail(@)]
       ELSE /\ tasksClosed
            /\ workers' = [workers EXCEPT ![k] = [pc |-> "exit", task |-> 0]]
            /\ UNCHANGED pool
    /\ UNCHANGED <<tasksClosed, submitters, shutdown, submitted, runs,
                   blockedTasks>>
    /\ PoolFrame

\* task() runs to its end, then wp.wg.Done().
workerRun(k) ==
    /\ workers[k].pc = "run"
    /\ runs' = [runs EXCEPT ![workers[k].task] = @ + 1]
    /\ pool' = [pool EXCEPT !.wg = @ - 1]
    /\ workers' = [workers EXCEPT ![k] = [pc |-> "recv", task |-> 0]]
    /\ UNCHANGED <<tasksClosed, submitters, shutdown, submitted,
                   blockedTasks>>
    /\ PoolFrame

\* Shutdown is called, once; the Submit calls begun so far came before it.
ShutdownCall ==
    /\ shutdown.pc = "idle"
    /\ shutdown' = [pc |-> "wait", early |-> submitted]
    /\ UNCHANGED <<pool, tasksClosed, submitters, workers, submitted, runs,
                   blockedTasks>>
    /\ PoolFrame

\* wp.wg.Wait() returns.
ShutdownWait ==
    /\ shutdown.pc = "wait"
    /\ wgWait(pool)
    /\ shutdown' = [shutdown EXCEPT !.pc = "close"]
    /\ UNCHANGED <<pool, tasksClosed, submitters, workers, submitted, runs,
                   blockedTasks>>
    /\ PoolFrame

\* close(wp.tasks), and Shutdown returns.
ShutdownClose ==
    /\ shutdown.pc = "close"
    /\ tasksClosed' = TRUE
    /\ shutdown' = [shutdown EXCEPT !.pc = "returned"]
    /\ UNCHANGED <<pool, submitters, workers, submitted, runs, blockedTasks>>
    /\ PoolFrame

PoolNext ==
    \/ \E s \in Submitters : SubmitAdd(s)
    \/ \E s \in Submitters : SubmitSend(s)
    \/ \E k \in 1..PoolSize : workerReceive(k)
    \/ \E k \in 1..PoolSize : workerRun(k)
    \/ ShutdownCall
    \/ ShutdownWait
    \/ ShutdownClose

SpecPool == PoolInit /\ [][PoolNext]_vars

\* Every goroutine that can take a step is scheduled, and tasks terminate:
\* a send that can proceed, a worker with a task to receive or to finish and
\* Shutdown past its Wait are not postponed forever.
PoolFairness ==
    /\ \A s \in Submitters : WF_vars(SubmitSend(s))
    /\ \A k \in 1..PoolSize : WF_vars(workerReceive(k))
    /\ \A k \in 1..PoolSize : WF_vars(workerRun(k))
    /\ WF_vars(ShutdownWait)
    /\ WF_vars(ShutdownClose)

SpecPoolFair == PoolInit /\ [][PoolNext]_vars /\ PoolFairness

\* Task t was passed to Submit before Shutdown was called.
Early(t) == t <= submitted /\ (shutdown.pc = "idle" \/ t <= shutdown.early)

\* Where task t is: waiting in a Submit call, queued, being run, or run.
Sending(t) ==
    Cardinality({ s \in Submitters :
                    submitters[s].pc = "send" /\ submitters[s].task = t })

Queued(t) == Cardinality({ i \in 1..Len(pool.tasks) : pool.tasks[i] = t })

Running(t) ==
    Cardinality({ k \in 1..PoolSize :
                    workers[k].pc = "run" /\ workers[k].task = t })

C12_ExactlyOnce ==
    /\ Len(pool.tasks) <= Capacity(pool)
    /\ \A t \in Tasks :
         /\ runs[t] <= 1
         /\ Early(t) => Sending(t) + Queued(t) + Running(t) + runs[t] = 1

C12_AllRan == \A t \in Tasks : Early(t) => runs[t] = 1

\* C12: every task passed to Submit before Shutdown is run exactly once by
\* some worker: at every moment it is in exactly one place (held by its
\* Submit call, which waits while the queue is full, queued, being run, or
\* run once), it is never dropped or run twice, and, tasks terminating and
\* goroutines being scheduled, again and again all of them have run.
C12_EveryTaskRunsOnce == []C12_ExactlyOnce /\ []<>C12_AllRan

\* A Submit met the full queue while the worker was busy, and its task and
\* all the others have run once.
C12_Witness ==
    /\ submitted = MaxTasks
    /\ \E t \in blockedTasks : runs[t] = 1
    /\ \A t \in Tasks : runs[t] = 1

\* C36: for a pool created with NewWorkerPool(size), the tasks enqueued
\* and not yet taken by a worker never exceed size*10 and the tasks running
\* at the same time never exceed size; a Submit returns without blocking
\* exactly when fewer than size*10 tasks are waiting in the queue: on the
\* open channel its send can proceed then, and only then.
C36_QueueAndWorkersBounded ==
    /\ Len(pool.tasks) <= pool.size * 10
    /\ Cardinality({ k \in 1..PoolSize : workers[k].pc = "run" }) <= pool.size
    /\ \A s \in Submitters :
         (submitters[s].pc = "send" /\ ~tasksClosed) =>
           (ENABLED SubmitSend(s) <=> Len(pool.tasks) < pool.size * 10)

\* A Submit waits with size*10 tasks queued and every worker running one.
C36_Witness ==
    /\ \E s \in Submitters : submitters[s].pc = "send"
    /\ Len(pool.tasks) = pool.size * 10
    /\ \A k \in 1..PoolSize : workers[k].pc = "run"
    /\ ~tasksClosed

\* close(wp.tasks) comes after the tasks submitted before the call have run.
ClosedAfterEarlyRan ==
    tasksClosed => \A t \in 1..shutdown.early : runs[t] = 1

\* Once the channel is closed no Submit adds to it.
NoEnqueueAfterClose ==
    tasksClosed => \A t \in Tasks : Queued(t)' <= Queued(t)

\* C13: Shutdown closes the task queue only after every task submitted
\* before Shutdown was called has run to completion; when Shutdown returns
\* no submitted task is still queued or running; and after the queue is
\* closed a Submit does not enqueue any task for execution.
C13_ShutdownDrains ==
    /\ []ClosedAfterEarlyRan
    /\ [](shutdown.pc = "returned" =>
            \A t \in 1..submitted : Queued(t) + Running(t) = 0)
    /\ [][NoEnqueueAfterClose]_vars

\* C13, amended: as C13, but when Shutdown returns it is the tasks submitted
\* before Shutdown was called that are no longer queued or running; a task
\* whose Submit overlaps Shutdown can still be queued then, and a Submit
\* whose send comes after the close panics instead of enqueueing.
C13_ShutdownDrainsEarly ==
    /\ []ClosedAfterEarlyRan
    /\ [](shutdown.pc = "returned" =>
            \A t \in 1..shutdown.early : Queued(t) + Running(t) = 0)
    /\ [][NoEnqueueAfterClose]_vars
    /\ [][\A s \in Submitters :
            (tasksClosed /\ submitters[s].pc = "send"
               /\ submitters'[s] # submitters[s])
            => submitters'[s].pc = "panic"]_vars

\* Shutdown returned after the two tasks submitted before it had run, while
\* a task whose Submit began during Shutdown is queued; and a Submit that
\* came after the close panicked.
C13_Witness ==
    /\ shutdown = [pc |-> "returned", early |-> 2]
    /\ runs[1] = 1 /\ runs[2] = 1
    /\ Queued(3) = 1
    /\ \E s \in Submitters :
         submitters[s].pc = "panic" /\ submitters[s].task = 4

(***************************************************************************)
(* Route groups: groups are created, given middlewares and routes, then    *)
(* requests are served                                                     *)
(***************************************************************************)
GroupPrefixes == { <<"/", "a">>, <<"/", "b">> }

\* /c is static; /:x is dynamic.
GroupPatterns == { <<"/", "c">>, <<"/", ":", "x">> }

GroupPaths ==
    { <<"/", "c">>, <<"/", "a", "/", "c">>, <<"/", "b", "/", "c">>,
      <<"/", "a", "/", "b", "/", "c">>, <<"/", "a", "/", "b", "/", "a">>,
      <<"/", "b", "/", "a", "/", "c">> }

\* The middleware handed to the n-th Use call on a group; all call next.
GroupMiddleware(n) == <<"u1", "u2", "u3", "u4", "u5", "u6">>[n]

\* The Use calls made on groups so far.
Uses ==
    Cardinality({ <<g, i>> \in (1..Len(lineage)) \X (1..MaxUses) :
                    i <= Len(lineage[g].own) })

GroupInit ==
    /\ GroupsIdle
    /\ TreeStart
    /\ MatchIdle
    /\ RouterNew
    /\ ProtocolIdle
    /\ LimiterIdle
    /\ PoolIdle
    /\ ConnIdle

\* What an action on a group leaves alone.
GroupFrame ==
    UNCHANGED <<treeVars, matchVars, limiterVars, poolVars, connVars, phase,
                middlewares, anyHandlers, rateLimiter, workerPool,
                requestVars, protocolVars>>

\* Router.Group
Group ==
    \E prefix \in GroupPrefixes :
        /\ phase = "setup"
        /\ Len(groups) < MaxGroups
        /\ groups' = Append(groups, [prefix |-> prefix,
                                     middlewares |-> EmptySlice])
        /\ lineage' = Append(lineage, [parent |-> 0, prefix |-> prefix,
                                       inherited |-> <<>>, own |-> <<>>])
        /\ UNCHANGED <<arrays, captured, staticRoutes, dynamicRoutes,
                       registrations>>
        /\ GroupFrame

\* RouterGroup.Group
SubGroup ==
    \E rg \in 1..Len(groups), prefix \in GroupPrefixes :
        /\ phase = "setup"
        /\ Len(groups) < MaxGroups
        /\ LET copy == append(arrays, EmptySlice,
                              View(arrays, groups[rg].middlewares))
           IN /\ groups' = Append(groups,
                                  [prefix |-> groups[rg].prefix \o prefix,
                                   middlewares |-> copy.slice])
              /\ arrays' = copy.arrays
        /\ lineage' = Append(lineage,
              [parent |-> rg, prefix |-> prefix,
               inherited |-> lineage[rg].inherited \o lineage[rg].own,
               own |-> <<>>])
        /\ UNCHANGED <<captured, staticRoutes, dynamicRoutes,
                       registrations>>
        /\ GroupFrame

\* RouterGroup.Use
GroupUse ==
    \E rg \in 1..Len(groups) :
        /\ phase = "setup"
        /\ Uses < MaxUses
        /\ LET m == GroupMiddleware(Uses + 1)
               grown == append(arrays, groups[rg].middlewares, <<m>>)
           IN /\ groups' = [groups EXCEPT ![rg].middlewares = grown.slice]
              /\ arrays' = grown.arrays
              /\ lineage' = [lineage EXCEPT ![rg].own = Append(@, m)]
        /\ UNCHANGED <<captured, staticRoutes, dynamicRoutes,
                       registrations>>
        /\ GroupFrame

\* RouterGroup.HandleFunc, and so the group's GET, POST, ...
GroupHandleFunc ==
    \E rg \in 1..Len(groups), pattern \in GroupPatterns :
        /\ phase = "setup"
        /\ Registered < MaxGroupRoutes
        /\ AddRoute("GET", fullPattern(groups[rg], pattern), Registered + 1)
        /\ captured' = Append(captured,
              [group |-> rg, pattern |-> pattern,
               had |-> View(arrays, groups[rg].middlewares)])
        /\ UNCHANGED <<groups, arrays, lineage>>
        /\ GroupFrame

\* The list a handler's wrappedHandler would run had it copied
\* rg.middlewares when the route was registered.
closureMiddlewares_atRegistration(handler) == captured[handler].had

\* rg.middlewares as the wrappedHandler of a handler reads it when it is
\* called: the closure holds rg, not a copy of its list.
closureMiddlewares(handler) ==
    View(arrays, groups[captured[handler].group].middlewares)

\* Router.ServeHTTP on a GET request of a router without rate limiter and
\* worker pool whose routes were all registered on groups: the route's
\* handler is the group's wrappedHandler, which executeHandler wraps in the
\* router's middlewares and calls.
GroupServeHTTP ==
    \E path \in GroupPaths :
        /\ phase = "serving"
        /\ request.pc = "idle"
        /\ ~rateLimiter.set /\ ~workerPool.set
        /\ LET res == resolve(staticRoutes, dynamicRoutes, "GET", path)
               finalHandler ==
                   wrapLoop(middlewares, Len(middlewares),
                            wrappedHandler(
                                closureMiddlewares(res.route.handler),
                                res.route.handler))
               ran == call(finalHandler)
           IN
           /\ request' = [pc |-> "returned", method |-> "GET", path |-> path]
           /\ served' = [called |-> res.kind = "dispatch",
                         handler |-> IF res.kind = "dispatch"
                                     THEN res.route.handler ELSE 0,
                         params |-> res.params, scanned |-> res.scanned,
                         allowed |-> IF res.kind = "dispatch"
                                     THEN "unlimited" ELSE "",
                         submitted |-> FALSE]
           /\ IF res.kind = "405"
              THEN /\ w' = [status |-> 405, allow |-> res.route.method]
                   /\ log' = <<>>
              ELSE IF res.kind = "404"
              THEN /\ w' = [status |-> 404, allow |-> ""]
                   /\ log' = <<>>
              ELSE /\ w' = [status |-> ran.status, allow |-> ""]
                   /\ log' = ran.log
        /\ UNCHANGED <<phase, configVars, rateLimiter, workerPool, pending,
                       done, groupVars>>
        /\ UNCHANGED <<treeVars, matchVars, limiterVars, poolVars, connVars,
                       protocolVars>>

GroupNext ==
    \/ Group
    \/ SubGroup
    \/ GroupUse
    \/ GroupHandleFunc
    \/ Start
    \/ GroupServeHTTP
    \/ Finish

SpecGroup == GroupInit /\ [][GroupNext]_vars

\* Groups of a router that is given middlewares of its own; no group is
\* made from another.
LateUseNext ==
    \/ Use
    \/ Group
    \/ GroupUse
    \/ GroupHandleFunc
    \/ Start
    \/ GroupServeHTTP
    \/ Finish

SpecLateUse == GroupInit /\ [][LateUseNext]_vars

\* rg.middlewares as the group reads it now.
GroupView(g) == View(arrays, groups[g].middlewares)

\* The elements of a sequence.
Range(q) == { q[i] : i \in 1..Len(q) }

\* The group whose wrappedHandler served the request.
ServingGroup == captured[served.handler].group

\* A Use call on group c leaves every other group's list, and the
\* router's, as it was, and adds its middleware at the end of c's.
UseChangesOnlyItsGroup ==
    \A c \in 1..Len(groups) :
        lineage'[c].own # lineage[c].own =>
          /\ \A g \in 1..Len(groups) :
               g # c => View(arrays', groups'[g].middlewares) = GroupView(g)
          /\ View(arrays', groups'[c].middlewares)
               = GroupView(c) \o <<lineage'[c].own[Len(lineage'[c].own)]>>
          /\ middlewares' = middlewares

\* A route runs no middleware but those its group had copied from its
\* parent when it was created and those given to the group itself.
RunsOnlyItsGroups ==
    (Active /\ served.called) =>
      \A i \in 1..Len(log) :
          log[i].ev = "enter" =>
            log[i].mw \in Range(lineage[ServingGroup].inherited)
                            \cup Range(lineage[ServingGroup].own)

Nested(g) == lineage[g].parent > 0 /\ lineage[lineage[g].parent].parent = 0

\* The prefixes passed to the Group calls that led to group g, in order.
RECURSIVE PrefixesOf(_)
PrefixesOf(g) ==
    IF lineage[g].parent = 0 THEN lineage[g].prefix
    ELSE PrefixesOf(lineage[g].parent) \o lineage[g].prefix

\* The path, or path pattern, handler h's route is expected at.
ExpectedAt(h) == PrefixesOf(captured[h].group) \o captured[h].pattern

IsStatic(pattern) == \A i \in 1..Len(pattern) : pattern[i] \notin {":", "*"}

\* A path is at a pattern: equal to it when the pattern is static, matching
\* it segment by segment otherwise.
PathAt(path, pattern) ==
    IF IsStatic(pattern) THEN path = pattern ELSE Matches(pattern, path)

\* What a request to a route on a group with middlewares ms runs.
GroupExpectedLog(ms, h) ==
    [ i \in 1..(2 * Len(ms) + 1) |->
        IF i <= Len(ms) THEN Event("enter", ms[i], 0)
        ELSE IF i = Len(ms) + 1 THEN Event("handler", "", h)
        ELSE Event("leave", ms[2 * Len(ms) + 2 - i], 0) ]

\* C15: a route registered with pattern q on a group created as
\* router.Group(p1).Group(p2) is resolvable exactly at p1+p2+q: a request
\* at p1+p2+q that no other route answers is dispatched to it, and it is
\* dispatched to for no request elsewhere; the request runs the middlewares
\* the parent had when the child was created, in order, then the child's
\* own in order, then the handler.
C15_NestedGroupRoute ==
    Active =>
      /\ \A h \in 1..Len(captured) :
           ( /\ Nested(captured[h].group)
             /\ PathAt(request.path, ExpectedAt(h))
             /\ \A h2 \in 1..Len(captured) :
                  h2 # h => ~PathAt(request.path, ExpectedAt(h2)) )
           => (served.called /\ served.handler = h)
      /\ (served.called /\ Nested(ServingGroup)) =>
           /\ PathAt(request.path, ExpectedAt(served.handler))
           /\ ExpectedAt(served.handler)
                = lineage[lineage[ServingGroup].parent].prefix
                    \o lineage[ServingGroup].prefix
                    \o captured[served.handler].pattern
           /\ log = GroupExpectedLog(lineage[ServingGroup].inherited
                                        \o lineage[ServingGroup].own,
                                      served.handler)

\* router.Group("/a") was given u1, then .Group("/b") made the child, which
\* was given u2; the parent was given u3 after that. A request at /a/b/c
\* reached the child's route /c and ran u1, u2 and the handler.
C15_Witness ==
    /\ Len(groups) = 2
    /\ lineage[1] = [parent |-> 0, prefix |-> <<"/", "a">>,
                     inherited |-> <<>>, own |-> <<"u1", "u3">>]
    /\ lineage[2] = [parent |-> 1, prefix |-> <<"/", "b">>,
                     inherited |-> <<"u1">>, own |-> <<"u2">>]
    /\ Len(captured) = 1
    /\ captured[1].group = 2
    /\ captured[1].pattern = <<"/", "c">>
    /\ request.path = <<"/", "a", "/", "b", "/", "c">>
    /\ served.called /\ served.handler = 1
    /\ log = <<Event("enter", "u1", 0), Event("enter", "u2", 0),
               Event("handler", "", 1), Event("leave", "u2", 0),
               Event("leave", "u1", 0)>>

\* What a request dispatched to handler h runs when the router's
\* middlewares are outer and the group's list is ms: the router's in
\* order up to the first that does not call next, then, when all of them
\* called next, the group's in order and the handler.
RouterThenGroupLog(outer, ms, h) ==
    LET n == Len(outer)
        depth == min(FirstStop, n)
        inner == IF FirstStop = n + 1 THEN GroupExpectedLog(ms, h)
                 ELSE <<>>
    IN  [i \in 1..depth |-> Event("enter", outer[i], 0)]
          \o inner
          \o [i \in 1..depth |-> Event("leave", outer[depth + 1 - i], 0)]

\* C40: a route registered on a RouterGroup runs the group's middleware
\* list as it is at request time, not as it was at registration: a
\* middleware added with the group's Use after the route was registered
\* wraps the route on later requests. The router's middlewares run first,
\* then the group's in registration order, then the handler.
C40_GroupListReadAtRequest ==
    (Active /\ served.called) =>
      /\ log = RouterThenGroupLog(middlewares, GroupView(ServingGroup),
                                  served.handler)
      /\ FirstStop = Len(middlewares) + 1 =>
           \A m \in Range(lineage[ServingGroup].own) :
               \E i \in 1..Len(log) : log[i] = Event("enter", m, 0)

\* The route was registered on a group that had u1; the group was given u2
\* afterwards and the router m1. The request ran m1, u1, u2 and the
\* handler.
C40_Witness ==
    /\ served.called /\ served.handler = 1
    /\ middlewares = <<"m1">>
    /\ captured[1].had = <<"u1">>
    /\ GroupView(ServingGroup) = <<"u1", "u2">>
    /\ log = <<Event("enter", "m1", 0), Event("enter", "u1", 0),
               Event("enter", "u2", 0), Event("handler", "", 1),
               Event("leave", "u2", 0), Event("leave", "u1", 0),
               Event("leave", "m1", 0)>>

(***************************************************************************)
(* One WebSocket connection: the read pump, the write pump, the handler,   *)
(* application goroutines calling Send and Close, and the client           *)
(***************************************************************************)
\* The opcodes of the frames the client sends.
ClientOpcodes == {OpText, OpBinary, OpPing, OpPong, OpClose}

\* The masking key of the client's masked frames.
MaskingKey == <<5, 6, 7, 8>>

\* The frames the client can send with a payload, as bytes: a masked frame
\* of each opcode with FIN set, and frames with FIN clear: a masked text
\* fragment, an unmasked ping fragment, and a masked binary fragment with a
\* payload of 126 bytes.
ClientFrames(payload) ==
    { clientFrame(TRUE, opcode, MaskingKey, payload) :
        opcode \in ClientOpcodes }
      \cup { clientFrame(FALSE, OpText, MaskingKey, payload),
             clientFrame(FALSE, OpPing, <<>>, payload),
             clientFrame(FALSE, OpBinary, MaskingKey,
                         [i \in 1..126 |-> payload[1]]) }

\* The payload of the n-th frame the client sends.
Payload(n) == <<n>>

\* The frames the client can send as its n-th frame.
NthFrames == [n \in 1..MaxFrames |-> ClientFrames(Payload(n))]

\* The message of the n-th Send call.
Message(n) == <<"m1", "m2", "m3", "m4", "m5">>[n]

ConnInit ==
    /\ ConnStart
    /\ TreeStart
    /\ MatchIdle
    /\ RouterNew
    /\ ProtocolIdle
    /\ LimiterIdle
    /\ PoolIdle
    /\ GroupsIdle

\* What an action on the connection leaves alone.
ConnFrame ==
    UNCHANGED <<treeVars, matchVars, routerVars, limiterVars, poolVars,
                groupVars, protocolVars>>

\* The write side of the stream can fail once the stream was released or
\* the client is gone.
WriteCanFail == conn.netConn = "closed" \/ ~peer.up

\* The application calls Send.
CallSend ==
    /\ Len(sends) < MaxSends
    /\ LET sent == Send(conn, Message(Len(sends) + 1)) IN
       /\ conn' = sent.conn
       /\ sends' = Append(sends, [closed |-> conn.Closed,
                                  result |-> sent.result,
                                  tried |-> sent.tried])
       /\ accepted' = IF sent.result = ""
                      THEN Append(accepted, Message(Len(sends) + 1))
                      ELSE accepted
    /\ UNCHANGED <<closes, reader, writer, app, peer, inbound, written>>
    /\ ConnFrame

\* The application calls Close.
CallClose ==
    /\ closes.app < MaxCloses
    /\ conn' = Close(conn, closes).conn
    /\ closes' = [Close(conn, closes).closes EXCEPT !.app = @ + 1]
    /\ UNCHANGED <<reader, writer, app, peer, inbound, written, sends,
                   accepted>>
    /\ ConnFrame

\* The client sends a frame.
ClientFrame ==
    \E n \in 1..MaxFrames : \E f \in NthFrames[n] :
        /\ n = peer.frames + 1
        /\ peer.up
        /\ inbound' = Append(inbound, f)
        /\ peer' = [peer EXCEPT !.frames = @ + 1]
        /\ UNCHANGED <<conn, closes, reader, writer, app, written, sends,
                       accepted>>
        /\ ConnFrame

\* The client goes away without a close frame.
ClientGone ==
    /\ peer.up
    /\ peer' = [peer EXCEPT !.up = FALSE]
    /\ UNCHANGED <<conn, closes, reader, writer, app, inbound, written,
                   sends, accepted>>
    /\ ConnFrame

\* readPump's select: it returns when closeChan is closed (the deferred
\* wsc.Close() runs), and goes on to readFrame otherwise.
readPumpSelect ==
    /\ reader = "select"
    /\ IF conn.closeChan
       THEN /\ reader' = "returned"
            /\ conn' = Close(conn, closes).conn
            /\ closes' = Close(conn, closes).closes
       ELSE /\ reader' = "read"
            /\ UNCHANGED <<conn, closes>>
    /\ UNCHANGED <<writer, app, peer, inbound, written, sends, accepted>>
    /\ ConnFrame

\* readFrame reads the next frame and readPump's switch handles it: a text
\* or binary frame goes to ReceiveChan unless it is full, a ping is answered
\* with a pong (the result of that writeFrame is ignored), a pong is
\* ignored, a close frame makes readPump call wsc.Close() and return, which
\* runs the deferred wsc.Close(). When readFrame returns an error, as for a
\* frame without FIN, readPump returns and the deferred wsc.Close() runs.
readPumpFrame ==
    /\ reader = "read"
    /\ inbound # <<>>
    /\ inbound' = Tail(inbound)
    /\ \E r \in {readFrame(Head(inbound))} :
       LET failed == r.err # ""
           data == ~failed /\ r.opcode \in {OpText, OpBinary}
           ping == ~failed /\ r.opcode = OpPing
           closing == ~failed /\ r.opcode = OpClose
       IN
       /\ conn' = IF failed THEN Close(conn, closes).conn
                  ELSE IF data
                  THEN [conn EXCEPT !.ReceiveChan = trySend(@, r.payload)]
                  ELSE IF closing
                  THEN Close(Close(conn, closes).conn,
                             Close(conn, closes).closes).conn
                  ELSE conn
       /\ closes' = IF failed THEN Close(conn, closes).closes
                    ELSE IF closing
                    THEN Close(Close(conn, closes).conn,
                               Close(conn, closes).closes).closes
                    ELSE closes
       /\ \/ written' = IF ping
                        THEN Append(written, WsFrame("OpPong", r.payload))
                        ELSE written
          \/ ping /\ WriteCanFail /\ UNCHANGED written
       /\ reader' = IF failed \/ closing THEN "returned" ELSE "select"
       /\ peer' = [peer EXCEPT
                     !.closeRead = @ \/ closing,
                     !.received = IF data THEN Append(@, r.payload) ELSE @]
    /\ UNCHANGED <<writer, app, sends, accepted>>
    /\ ConnFrame

\* readFrame returns an error (the stream was released, or the client is
\* gone): readPump returns and the deferred wsc.Close() runs.
readPumpError ==
    /\ reader = "read"
    /\ conn.netConn = "closed" \/ ~peer.up
    /\ reader' = "returned"
    /\ conn' = Close(conn, closes).conn
    /\ closes' = Close(conn, closes).closes
    /\ UNCHANGED <<writer, app, peer, inbound, written, sends, accepted>>
    /\ ConnFrame

\* writePump's select receives a message from SendChan and writes it as a
\* text frame; when the write fails it returns and the deferred wsc.Close()
\* runs.
writePumpMessage ==
    /\ writer = "select"
    /\ conn.SendChan # <<>>
    /\ LET got == chanReceive(conn.SendChan)
           taken == [conn EXCEPT !.SendChan = got.rest]
       IN \/ /\ written' = Append(written, WsFrame("OpText", got.message))
             /\ conn' = taken
             /\ UNCHANGED <<writer, closes>>
          \/ /\ WriteCanFail
             /\ writer' = "returned"
             /\ conn' = Close(taken, closes).conn
             /\ closes' = Close(taken, closes).closes
             /\ UNCHANGED written
    /\ UNCHANGED <<reader, app, peer, inbound, sends, accepted>>
    /\ ConnFrame

\* writePump's select finds SendChan closed and empty: it writes a close
\* frame, returns, and the deferred wsc.Close() runs.
writePumpClosed ==
    /\ writer = "select"
    /\ conn.SendChan = <<>>
    /\ conn.sendClosed
    /\ \/ written' = Append(written, WsFrame("OpClose", ""))
       \/ WriteCanFail /\ UNCHANGED written
    /\ writer' = "returned"
    /\ conn' = Close(conn, closes).conn
    /\ closes' = Close(conn, closes).closes
    /\ UNCHANGED <<reader, app, peer, inbound, sends, accepted>>
    /\ ConnFrame

\* writePump's select takes a tick of the ping ticker and writes a ping.
writePumpPing ==
    /\ writer = "select"
    /\ peer.pings < MaxPings
    /\ peer' = [peer EXCEPT !.pings = @ + 1]
    /\ \/ /\ written' = Append(written, WsFrame("OpPing", ""))
          /\ UNCHANGED <<writer, conn, closes>>
       \/ /\ WriteCanFail
          /\ writer' = "returned"
          /\ conn' = Close(conn, closes).conn
          /\ closes' = Close(conn, closes).closes
          /\ UNCHANGED written
    /\ UNCHANGED <<reader, app, inbound, sends, accepted>>
    /\ ConnFrame

\* writePump's select finds closeChan closed: it returns and the deferred
\* wsc.Close() runs.
writePumpQuit ==
    /\ writer = "select"
    /\ conn.closeChan
    /\ writer' = "returned"
    /\ conn' = Close(conn, closes).conn
    /\ closes' = Close(conn, closes).closes
    /\ UNCHANGED <<reader, app, peer, inbound, written, sends, accepted>>
    /\ ConnFrame

\* The handler's for msg := range ws.ReceiveChan: it takes the next message,
\* or leaves the loop when ReceiveChan is closed and empty.
HandlerRange ==
    /\ app.pc = "loop"
    /\ IF conn.ReceiveChan # <<>>
       THEN /\ app' = [app EXCEPT !.got = Append(@, Head(conn.ReceiveChan))]
            /\ conn' = [conn EXCEPT !.ReceiveChan = Tail(@)]
       ELSE /\ conn.receiveClosed
            /\ app' = [app EXCEPT !.pc = "left"]
            /\ UNCHANGED conn
    /\ UNCHANGED <<closes, reader, writer, peer, inbound, written, sends,
                   accepted>>
    /\ ConnFrame

ConnNext ==
    \/ CallSend
    \/ CallClose
    \/ ClientFrame
    \/ ClientGone
    \/ readPumpSelect
    \/ readPumpFrame
    \/ readPumpError
    \/ writePumpMessage
    \/ writePumpClosed
    \/ writePumpPing
    \/ writePumpQuit
    \/ HandlerRange

SpecConn == ConnInit /\ [][ConnNext]_vars

\* The pumps and the handler are goroutines the Go scheduler keeps running:
\* a step of theirs that stays possible is taken. Nothing obliges the
\* application to call Send or Close, or the client to send a frame.
ConnFairness ==
    /\ WF_vars(readPumpSelect)
    /\ WF_vars(readPumpFrame)
    /\ WF_vars(readPumpError)
    /\ WF_vars(writePumpMessage)
    /\ WF_vars(writePumpClosed)
    /\ WF_vars(writePumpQuit)
    /\ WF_vars(HandlerRange)

SpecConnFair == SpecConn /\ ConnFairness

\* C16: under every interleaving of the read pump, the write pump and
\* application calls to Close(), the raw stream is released (netConn.Close)
\* at most once and SendChan and closeChan are each closed at most once; a
\* Close() on a connection that is already closed changes nothing, and no
\* Close() panics.
C16_ReleasedAtMostOnce ==
    /\ closes.netConn <= 1
    /\ closes.SendChan <= 1
    /\ closes.closeChan <= 1
    /\ closes.panics = 0
    /\ conn.Closed =>
         /\ Close(conn, closes).conn = conn
         /\ Close(conn, closes).closes = [closes EXCEPT !.calls = @ + 1]

\* The application, the read pump (twice, for a close frame) and the write
\* pump have all called Close(), and each resource was closed once.
C16_Witness ==
    /\ closes.app = 1
    /\ closes.calls = 4
    /\ peer.closeRead
    /\ reader = "returned" /\ writer = "returned"
    /\ closes.netConn = 1 /\ closes.SendChan = 1 /\ closes.closeChan = 1
    /\ closes.panics = 0

\* C17: once Closed is true it never becomes false again; every Send made
\* after that returns a failure and enqueues nothing; and under every
\* interleaving of Send and Close no Send attempts the send on the closed
\* SendChan.
C17_ClosedStaysClosed ==
    /\ [][conn.Closed => conn'.Closed]_vars
    /\ [](\A i \in 1..Len(sends) :
            /\ sends[i].closed => sends[i].result = "connection closed"
            /\ ~sends[i].tried)
    /\ [](conn.Closed =>
            /\ Send(conn, "m").conn = conn
            /\ Send(conn, "m").result # "")
    /\ [](Len(accepted)
            = Cardinality({ i \in 1..Len(sends) : sends[i].result = "" }))

\* A Send was accepted, the connection was closed with the message still
\* queued, and the next two Send calls failed.
C17_Witness ==
    /\ conn.Closed
    /\ Len(sends) = 3
    /\ sends[1] = [closed |-> FALSE, result |-> "", tried |-> FALSE]
    /\ sends[2].closed /\ sends[2].result = "connection closed"
    /\ sends[3].closed /\ sends[3].result = "connection closed"
    /\ accepted = <<"m1">>
    /\ conn.SendChan = <<"m1">>

\* C18: when a client sends a close frame on an open connection, the read
\* pump closes the connection in that same iteration and the handler's
\* inbound message sequence ends: the handler ranging over ReceiveChan leaves
\* its loop after the connection is closed. So the step that reads the
\* close frame leaves the connection closed and the read pump returned, and
\* from then on the handler eventually leaves its loop.
C18_CloseFrameEndsHandler ==
    /\ [](peer.closeRead => conn.Closed /\ reader = "returned")
    /\ peer.closeRead ~> app.pc = "left"

\* The payloads of the text frames written so far, in order.
TextWritten ==
    LET texts == SelectSeq(written, LAMBDA f : f.opcode = "OpText")
    IN [i \in 1..Len(texts) |-> texts[i].payload]

\* C19: the text frames the write pump writes carry the messages in the
\* order in which their Send calls were accepted onto SendChan: what was
\* written is always a beginning of the accepted sequence, so no message is
\* written before one accepted earlier and none is written twice.
C19_WrittenInSendOrder ==
    /\ Len(TextWritten) <= Len(accepted)
    /\ \A i \in 1..Len(TextWritten) : TextWritten[i] = accepted[i]

\* Three messages were accepted, the third after the first was written;
\* the first two are written and the third is queued.
C19_Witness ==
    /\ accepted = <<"m1", "m2", "m3">>
    /\ TextWritten = <<"m1", "m2">>
    /\ conn.SendChan = <<"m3">>
    /\ ~conn.Closed

\* A close frame is among the frames written.
CloseFrameWritten ==
    \E i \in 1..Len(written) : written[i].opcode = "OpClose"

\* This step writes a close frame.
WritesCloseFrame ==
    /\ Len(written') = Len(written) + 1
    /\ written'[Len(written')].opcode = "OpClose"

\* C27: whenever SendChan is closed while the write pump runs, the write
\* pump writes a close frame and then exits: the close frame is written on
\* every such run, the step that writes it is the pump's last, and it is
\* written while the raw stream is still open, before it is released.
C27_CloseFrameBeforeRelease ==
    /\ (conn.sendClosed /\ writer = "select") ~> CloseFrameWritten
    /\ [][WritesCloseFrame => writer' = "returned"]_vars
    /\ [][WritesCloseFrame => conn.netConn = "open"]_vars

BothPumpsReturned == reader = "returned" /\ writer = "returned"

\* C28: after any one close trigger the connection becomes Closed and both
\* pumps eventually terminate, a read on the released stream failing;
\* neither pump retries after an error. The triggers are the steps in which
\* a pump returns (the read pump on a close frame or on a read or decode
\* error, the write pump on a write error) and the application's Close():
\* each leaves the connection Closed; from Closed on both pumps eventually
\* have returned; and a pump that has returned takes no further step.
C28_CloseTriggerEndsPumps ==
    /\ [][(reader # "returned" /\ reader' = "returned") => conn'.Closed]_vars
    /\ [][(writer # "returned" /\ writer' = "returned") => conn'.Closed]_vars
    /\ [][closes'.app > closes.app => conn'.Closed]_vars
    /\ conn.Closed ~> BothPumpsReturned
    /\ [][reader = "returned" => reader' = "returned"]_vars
    /\ [][writer = "returned" => writer' = "returned"]_vars

\* The client's only frame was a fragment: readFrame failed on it, which
\* closed the connection with no Close() of the application, no close frame
\* and the client still there; both pumps have returned.
C28_Witness ==
    /\ conn.Closed
    /\ BothPumpsReturned
    /\ closes.app = 0
    /\ peer.up /\ ~peer.closeRead /\ peer.pings = 0
    /\ peer.frames = 1 /\ inbound = <<>>
    /\ peer.received = <<>>
    /\ written = <<>>

\* C29: every message for which Send returned success is eventually written
\* by the write pump as a text frame, including the messages still queued
\* when Close() is called; no accepted message is discarded. While the client
\* is there, the n-th accepted message eventually is the n-th text frame
\* written.
C29_AcceptedIsWritten ==
    \A n \in 1..MaxSends :
        (Len(accepted) >= n)
          ~> \/ Len(TextWritten) >= n /\ TextWritten[n] = accepted[n]
             \/ ~peer.up

\* xs is ys with some of its entries left out, the others in their order.
RECURSIVE IsSubsequence(_, _)
IsSubsequence(xs, ys) ==
    IF xs = <<>> THEN TRUE
    ELSE IF ys = <<>> THEN FALSE
    ELSE IF Head(xs) = Head(ys) THEN IsSubsequence(Tail(xs), Tail(ys))
    ELSE IsSubsequence(xs, Tail(ys))

\* The messages delivered on ReceiveChan: those the handler took and those
\* still queued.
Delivered == app.got \o conn.ReceiveChan

\* This step is readPump reading a text or binary frame.
ReadsDataFrame ==
    /\ reader = "read"
    /\ Len(peer'.received) = Len(peer.received) + 1

ReadsFrame(firstByte) ==
    /\ reader = "read"
    /\ inbound # <<>>
    /\ inbound' = Tail(inbound)
    /\ Head(inbound)[1] = firstByte

\* The payload the client gave the frame readPump reads next.
NextPayload == Payload(peer.frames - Len(inbound) + 1)

\* C31: when the read pump decodes a ping frame it writes a pong frame
\* carrying the same payload before it reads the next frame: the step that
\* reads the ping appends a pong with the ping's payload to what is written
\* (on a stream that takes the write: one that is not released, with the
\* client there), writes nothing else, and takes the pump back to its
\* select. A received pong frame causes no write, no enqueue and no state
\* change.
C31_PingAnsweredByPong ==
    /\ [][ReadsFrame(128 + OpPing) =>
            /\ reader' = "select"
            /\ \/ written' = Append(written, WsFrame("OpPong", NextPayload))
               \/ WriteCanFail /\ written' = written
            /\ UNCHANGED <<conn, closes, writer, app, peer>>]_vars
    /\ [][ReadsFrame(128 + OpPong) =>
            /\ reader' = "select"
            /\ UNCHANGED <<conn, closes, writer, app, peer, written>>]_vars

\* The client's first frame was a pong and its second a ping: both were
\* read, and the only frame written is the pong with the ping's payload.
C31_Witness ==
    /\ peer.frames = 2 /\ inbound = <<>>
    /\ written = <<WsFrame("OpPong", Payload(2))>>
    /\ peer.received = <<>>
    /\ reader = "select"
    /\ ~conn.Closed

\* This step is readPump reading a frame whose FIN bit is clear.
ReadsFragment ==
    /\ reader = "read"
    /\ inbound # <<>>
    /\ inbound' = Tail(inbound)
    /\ Head(inbound)[1] < 128

\* C32: readFrame on a frame whose FIN bit is clear returns the dedicated
\* error and no payload, whatever the opcode, mask and length; the read pump
\* then delivers nothing from that frame to the inbound queue, closes the
\* connection and exits.
C32_FragmentClosesConnection ==
    [][ReadsFragment =>
        /\ readFrame(Head(inbound)).err = "fragmented messages not supported"
        /\ readFrame(Head(inbound)).payload = <<>>
        /\ readFrame(Head(inbound)).opcode = 0
        /\ conn'.ReceiveChan = conn.ReceiveChan
        /\ peer'.received = peer.received
        /\ conn'.Closed
        /\ reader' = "returned"]_vars

\* The client's first frame was a text frame, which was delivered, and its
\* second a frame with FIN clear: nothing of it was delivered, the
\* connection is closed and the read pump has returned, with no Close() of
\* the application and no close frame from the client.
C32_Witness ==
    /\ peer.frames = 2 /\ inbound = <<>>
    /\ peer.received = <<Payload(1)>>
    /\ Delivered = <<Payload(1)>>
    /\ reader = "returned"
    /\ conn.Closed
    /\ closes.app = 0 /\ peer.up /\ ~peer.closeRead /\ peer.pings = 0
    /\ written = <<>>

(***************************************************************************)
(* One request to a WEBSOCKET endpoint                                     *)
(***************************************************************************)
\* Values of the Upgrade header: absent, websocket in three spellings, and
\* another protocol.
UpgradeValues ==
    { <<>>, <<"w", "e", "b", "s", "o", "c", "k", "e", "t">>, <<"W", "e", "b", "S", "o", "c", "k", "e", "t">>,
      <<"W", "E", "B", "S", "O", "C", "K", "E", "T">>,
      <<"w", "e", "b", "s", "o", "c", "k", "e", "t", "s">>, <<"h", "2", "c">> }

\* Values of the Connection header: absent, Upgrade alone and in a list, in
\* two spellings, and values without it.
ConnectionValues ==
    { <<>>, <<"U", "p", "g", "r", "a", "d", "e">>, <<"u", "p", "g", "r", "a", "d", "e">>,
      <<"k", "e", "e", "p", "-", "a", "l", "i", "v", "e", ",", " ", "U", "p", "g", "r", "a", "d", "e">>,
      <<"k", "e", "e", "p", "-", "a", "l", "i", "v", "e">>,
      <<"c", "l", "o", "s", "e">> }

\* Values of the Sec-WebSocket-Key header: absent and present.
KeyValues == { <<>>, <<"d", "G", "h", "l">> }

\* What the server does when asked: w.(http.Hijacker) and hj.Hijack(), and
\* bufrw.WriteString and bufrw.Flush.
Servers ==
    [hijack : {"ok", "unsupported", "error"},
     write : {"ok", "writeError", "flushError"}]

HandshakeInit ==
    /\ handshake \in
         { [pc |-> "request", r |-> Request(u, c, k), srv |-> srv,
            out |-> NoOutcome] :
           u \in UpgradeValues, c \in ConnectionValues, k \in KeyValues,
           srv \in Servers }
    /\ CodecIdle
    /\ AcceptIdle
    /\ WireIdle
    /\ TreeStart
    /\ MatchIdle
    /\ RouterNew
    /\ ServicesIdle

\* The handler WEBSOCKET registered serves the request.
ServeWebSocket ==
    /\ handshake.pc = "request"
    /\ handshake' = [handshake EXCEPT
                       !.pc = "served",
                       !.out = websocketHandler(handshake.r, handshake.srv)]
    /\ UNCHANGED <<treeVars, matchVars, routerVars, serviceVars, codecVars,
                   acceptVars, wireVars>>

HandshakeNext == ServeWebSocket

SpecHandshake == HandshakeInit /\ [][HandshakeNext]_vars

\* Equality of two header values up to the case of their letters.
EqualFold(a, b) ==
    /\ Len(a) = Len(b)
    /\ \A i \in 1..Len(a) :
          \/ a[i] = b[i]
          \/ \E k \in 1..Len(UpperCase) :
                {a[i], b[i]} = {UpperCase[k], LowerCase[k]}

\* The request lacks Upgrade: websocket, or a Connection header containing
\* upgrade, or a non-empty Sec-WebSocket-Key.
LacksHandshakeHeader(r) ==
    \/ ~EqualFold(r.upgrade, <<"w", "e", "b", "s", "o", "c", "k", "e", "t">>)
    \/ ~\E i \in 1..Len(r.connection), j \in 1..Len(r.connection) :
           EqualFold(SubSeq(r.connection, i, j), <<"u", "p", "g", "r", "a", "d", "e">>)
    \/ r.key = <<>>

\* C21: a request to a WEBSOCKET endpoint that lacks Upgrade: websocket, or
\* a Connection header containing upgrade (both compared without regard to
\* case), or a non-empty Sec-WebSocket-Key, is a handshake failure: a 4xx or
\* 5xx status is answered, no 101 response is written, the raw stream is not
\* taken over, no pump is started and the application handler is not called.
C21_HandshakeFailure ==
    handshake.pc = "served" /\ LacksHandshakeHeader(handshake.r) =>
      /\ handshake.out.status \in 400..599
      /\ ~handshake.out.upgrade.switched
      /\ ~handshake.out.upgrade.hijacked
      /\ handshake.out.upgrade.netConn = "server"
      /\ ~handshake.out.pumps
      /\ ~handshake.out.handler

\* A request with Upgrade: WebSocket and Connection: keep-alive, Upgrade but
\* no key was refused with 500 by a server that could have been hijacked.
C21_Witness ==
    /\ handshake.pc = "served"
    /\ handshake.r = Request(<<"W", "e", "b", "S", "o", "c", "k", "e", "t">>,
                             <<"k", "e", "e", "p", "-", "a", "l", "i", "v", "e", ",", " ", "U", "p", "g", "r", "a", "d", "e">>,
                             <<>>)
    /\ handshake.srv = [hijack |-> "ok", write |-> "ok"]
    /\ handshake.out.status = 500
    /\ ~handshake.out.handler

(***************************************************************************)
(* One frame written with writeFrame and read back with readFrame          *)
(***************************************************************************)
Opcodes == {OpContinuation, OpText, OpBinary, OpClose, OpPing, OpPong}

\* Payload lengths on both sides of the boundaries of the three length
\* encodings.
PayloadLengths == {0, 1, 125, 126, 127, 65535, 65536}

\* Payload contents: every byte zero, and bytes running through all values.
Fills == {0, 1}

PayloadOf(length, fill) == [i \in 1..length |-> (fill * i * 7) % 256]

CodecInit ==
    /\ codec \in
         { [pc |-> "new", opcode |-> opcode,
            payload |-> PayloadOf(length, fill), stream |-> <<>>,
            got |-> Read(0, <<>>, "", <<>>)] :
           opcode \in Opcodes, length \in PayloadLengths, fill \in Fills }
    /\ HandshakeIdle
    /\ AcceptIdle
    /\ WireIdle
    /\ TreeStart
    /\ MatchIdle
    /\ RouterNew
    /\ ServicesIdle

CodecFrame ==
    UNCHANGED <<treeVars, matchVars, routerVars, serviceVars, handshakeVars,
                acceptVars, wireVars>>

\* writeFrame(opcode, payload) puts the frame's bytes on the stream.
CallWriteFrame ==
    /\ codec.pc = "new"
    /\ codec' = [codec EXCEPT
                   !.pc = "written",
                   !.stream = writeFrame(codec.opcode, codec.payload)]
    /\ CodecFrame

\* readFrame() reads a frame from the stream.
CallReadFrame ==
    /\ codec.pc = "written"
    /\ codec' = [codec EXCEPT
                   !.pc = "read",
                   !.got = readFrame(codec.stream),
                   !.stream = readFrame(codec.stream).rest]
    /\ CodecFrame

CodecNext == CallWriteFrame \/ CallReadFrame

SpecCodec == CodecInit /\ [][CodecNext]_vars

\* C22: for every opcode and payload, the bytes writeFrame produces have
\* FIN set and no mask bit, and readFrame decodes them, without error and
\* leaving nothing over, to the same opcode and the same payload; for
\* payload lengths 0, 1, 125, 126, 127, 65535 and 65536.
C22_FrameRoundTrip ==
    /\ codec.pc = "written" =>
         /\ codec.stream[1] >= 128
         /\ codec.stream[2] < 128
    /\ codec.pc = "read" =>
         /\ codec.got.err = ""
         /\ codec.got.opcode = codec.opcode
         /\ codec.got.payload = codec.payload
         /\ codec.stream = <<>>

\* A pong frame of 65536 bytes that are not all zero was written with the
\* 8-byte length and read back.
C22_Witness ==
    /\ codec.pc = "read"
    /\ codec.opcode = OpPong
    /\ Len(codec.payload) = 65536
    /\ codec.payload[65535] = 249
    /\ codec.got.payload = codec.payload

(***************************************************************************)
(* One call of generateAcceptKey                                           *)
(***************************************************************************)
\* Three Sec-WebSocket-Key values; the first two are the examples of
\* RFC 6455.
SampleKeys ==
    { <<"d", "G", "h", "l", "I", "H", "N", "h", "b", "X", "B", "s", "Z",
      "S", "B", "u", "b", "2", "5", "j", "Z", "Q", "=", "=">>,
      <<"x", "3", "J", "J", "H", "M", "b", "D", "L", "1", "E", "z", "L",
      "k", "h", "9", "G", "B", "h", "X", "D", "w", "=", "=">>,
      <<"A", "Q", "I", "D", "B", "A", "U", "G", "B", "w", "g", "J", "C",
      "g", "s", "M", "D", "Q", "4", "P", "E", "A", "=", "=">> }

\* The keys generateAcceptKey is called with: the sample keys and their
\* beginnings, so that key ++ GUID takes one SHA-1 block (up to 19
\* characters) or two.
AcceptKeys == { SubSeq(k, 1, n) : k \in SampleKeys, n \in 0..24 }

AcceptInit ==
    /\ accept \in { [pc |-> "new", key |-> k, result |-> <<>>] :
                     k \in AcceptKeys }
    /\ HandshakeIdle
    /\ CodecIdle
    /\ WireIdle
    /\ TreeStart
    /\ MatchIdle
    /\ RouterNew
    /\ ServicesIdle

CallGenerateAcceptKey ==
    /\ accept.pc = "new"
    /\ accept' = [accept EXCEPT !.pc = "returned",
                                !.result = generateAcceptKey(accept.key)]
    /\ UNCHANGED <<treeVars, matchVars, routerVars, serviceVars,
                   handshakeVars, codecVars, wireVars>>

AcceptNext == CallGenerateAcceptKey

SpecAccept == AcceptInit /\ [][AcceptNext]_vars

\* Reference values of base64(SHA-1(key ++ GUID)): the test vector of
\* RFC 6455 section 1.3, the example of section 4.2.2, and four more keys.
ReferenceAccept(key) ==
    IF key = <<"d", "G", "h", "l", "I", "H", "N", "h", "b", "X", "B", "s", "Z",
         "S", "B", "u", "b", "2", "5", "j", "Z", "Q", "=", "=">>
    THEN <<"s", "3", "p", "P", "L", "M", "B", "i", "T", "x", "a", "Q", "9",
         "k", "Y", "G", "z", "z", "h", "Z", "R", "b", "K", "+", "x", "O",
         "o", "=">>
    ELSE IF key = <<"x", "3", "J", "J", "H", "M", "b", "D", "L", "1", "E", "z", "L", "k", "h", "9", "G", "B", "h", "X", "D", "w", "=", "=">>
    THEN <<"H", "S", "m", "r", "c", "0", "s", "M", "l", "Y", "U", "k", "A",
         "G", "m", "m", "5", "O", "P", "p", "G", "2", "H", "a", "G", "W",
         "k", "=">>
    ELSE IF key = <<>>
    THEN <<"K", "f", "h", "9", "Q", "I", "s", "M", "V", "Z", "c", "l", "6",
         "x", "E", "P", "Y", "x", "P", "H", "z", "W", "8", "S", "Z", "8",
         "w", "=">>
    ELSE IF key = <<"d", "G", "h", "l", "I", "H", "N", "h", "b", "X", "B", "s", "Z", "S", "B", "u", "b", "2", "5">>
    THEN <<"u", "m", "3", "1", "H", "T", "T", "7", "m", "f", "0", "u", "L",
         "E", "X", "P", "S", "N", "6", "K", "z", "f", "o", "1", "Y", "Q",
         "A", "=">>
    ELSE IF key = <<"d", "G", "h", "l", "I", "H", "N", "h", "b", "X", "B", "s", "Z", "S", "B", "u", "b", "2", "5", "j">>
    THEN <<"k", "9", "u", "F", "U", "Q", "3", "s", "x", "s", "B", "z", "o",
         "5", "O", "0", "/", "y", "l", "r", "v", "Y", "r", "5", "z", "k",
         "4", "=">>
    ELSE IF key = <<"A", "Q", "I", "D", "B", "A", "U", "G", "B", "w", "g", "J", "C", "g", "s", "M", "D", "Q", "4", "P", "E", "A", "=", "=">>
    THEN <<"C", "/", "0", "n", "m", "H", "h", "B", "z", "t", "S", "R", "G",
         "R", "1", "C", "w", "L", "6", "T", "f", "4", "Z", "j", "w", "p",
         "Y", "=">>
    ELSE <<>>

\* C23: generateAcceptKey(key) is base64(SHA-1(key ++
\* "258EAFA5-E914-47DA-95CA-C5AB0DC85B11")): 28 characters of the base64
\* alphabet ending in one "=", equal to the reference value for the keys
\* that have one; for the key "dGhlIHNhbXBsZSBub25jZQ==" the result is
\* "s3pPLMBiTxaQ9kYGzzhZRbK+xOo=".
C23_AcceptKey ==
    accept.pc = "returned" =>
      /\ Len(accept.result) = 28
      /\ accept.result[28] = "="
      /\ \A i \in 1..27 :
            \E k \in 1..Len(encodeStd) : encodeStd[k] = accept.result[i]
      /\ ReferenceAccept(accept.key) # <<>> =>
            accept.result = ReferenceAccept(accept.key)
      /\ accept.key = <<"d", "G", "h", "l", "I", "H", "N", "h", "b", "X", "B", "s", "Z",
        "S", "B", "u", "b", "2", "5", "j", "Z", "Q", "=", "=">> =>
            accept.result =
              <<"s", "3", "p", "P", "L", "M", "B", "i", "T", "x", "a", "Q",
              "9", "k", "Y", "G", "z", "z", "h", "Z", "R", "b", "K", "+",
              "x", "O", "o", "=">>

\* generateAcceptKey returned for the key of the RFC 6455 test vector.
C23_Witness ==
    /\ accept.pc = "returned"
    /\ accept.key = <<"d", "G", "h", "l", "I", "H", "N", "h", "b", "X", "B", "s", "Z",
        "S", "B", "u", "b", "2", "5", "j", "Z", "Q", "=", "=">>
    /\ accept.result[1] = "s"
    /\ accept.result[27] = "o"

(***************************************************************************)
(* The tree with Walk                                                      *)
(***************************************************************************)
\* Tree.Walk with a visitor that returns true at its stopAt-th call (never
\* when stopAt is 0), under one of the orders in which the children maps
\* can be ranged over.
Walk ==
    \E stopAt \in 0..MaxStop :
      \E r \in TreeWalk(tree, stopAt) :
        /\ walked' = [called |-> TRUE, stopAt |-> stopAt,
                      visits |-> r.visits, stopped |-> r.stopped]
        /\ UNCHANGED <<tree, present>>
        /\ UNCHANGED <<matchVars, routerVars, serviceVars, protocolVars>>

WalkNext == Insert \/ Delete \/ Walk

SpecWalk == TreeInit /\ [][WalkNext]_vars

\* The keys that were inserted and not deleted since.
PresentKeys == { k \in Keys : present[k] # Absent }

\* a is a proper beginning of b.
ProperPrefix(a, b) == Len(a) < Len(b) /\ SubSeq(b, 1, Len(a)) = a

\* C24: after every sequence of Insert and Delete, a Walk whose visitor
\* never stops visits exactly the present keys, each once, with its full
\* key and its current value, and a key before every present key that
\* extends it; a visitor that returns true stops the traversal: its call was
\* the last visit.
C24_WalkVisitsPresentKeys ==
    walked.called =>
      LET visits == walked.visits
          count == Cardinality(PresentKeys)
      IN
      /\ \A i \in 1..Len(visits) :
            /\ visits[i].key \in PresentKeys
            /\ visits[i].value = present[visits[i].key]
      /\ \A i, j \in 1..Len(visits) :
            /\ visits[i].key = visits[j].key => i = j
            /\ ProperPrefix(visits[i].key, visits[j].key) => i < j
      /\ IF walked.stopAt \in 1..count
         THEN walked.stopped /\ Len(visits) = walked.stopAt
         ELSE /\ ~walked.stopped
              /\ { visits[i].key : i \in 1..Len(visits) } = PresentKeys

\* A Walk that never stopped visited five keys on three levels, in a tree
\* from which a key with two longer keys below it was deleted.
C24_Witness ==
    /\ walked.called
    /\ walked.stopAt = 0
    /\ Len(walked.visits) = 5
    /\ present[<<"a", "b">>] = Absent
    /\ present[<<"a", "b", "c">>] # Absent
    /\ present[<<"a", "b", "b">>] # Absent
    /\ present[<<"a">>] # Absent
    /\ findNode(tree, <<"a", "b">>).found

\* The nodes below n.
RECURSIVE Descendants(_)
Descendants(n) ==
    UNION { {n.children[b]} \cup Descendants(n.children[b]) :
            b \in DOMAIN n.children }

\* C25: after every sequence of Insert and Delete, no node other than the
\* root is without a value and with fewer than two children: Delete restores
\* path compression.
C25_DeleteRestoresCompression ==
    \A n \in Descendants(tree.root) :
        n.hasValue \/ Cardinality(DOMAIN n.children) >= 2

\* The keys LongestPrefix is asked about: every key of the tree, and keys
\* that extend them or leave them at a byte no key has.
PrefixQueries ==
    Keys \cup { <<"a", "b", "c", "a">>, <<"a", "b", "a">>, <<"a", "a">>,
                <<"b", "a", "b">>, <<"b", "b">>, <<"c">> }

\* The present keys that are key or a prefix of it.
PresentPrefixes(key) ==
    { p \in PresentKeys : p = key \/ ProperPrefix(p, key) }

\* C37: after any sequence of Insert and Delete, LongestPrefix(key) returns
\* (p, v, true) with p the longest present key that is a prefix of key, key
\* itself included, and v the current value of p, and not-found when no
\* present key is a prefix of key.
C37_LongestPrefixIsLongestPresent ==
    \A key \in PrefixQueries :
        IF PresentPrefixes(key) = {}
        THEN ~LongestPrefix(tree, key).found
        ELSE \E p \in PresentPrefixes(key) :
                /\ \A q \in PresentPrefixes(key) : Len(q) <= Len(p)
                /\ LongestPrefix(tree, key) =
                       [key |-> p, value |-> present[p], found |-> TRUE]

\* LongestPrefix answered with a key two nodes above the end of its walk:
\* the node of "ab" is on the path and holds no value, "abc" is present but
\* longer than the part of the key that matches.
C37_Witness ==
    /\ present[<<"a">>] = "v2"
    /\ present[<<"a", "b">>] = Absent
    /\ present[<<"a", "b", "c">>] # Absent
    /\ present[<<"a", "b", "b">>] # Absent
    /\ findNode(tree, <<"a", "b">>).found
    /\ LongestPrefix(tree, <<"a", "b", "a">>) =
           [key |-> <<"a">>, value |-> "v2", found |-> TRUE]
    /\ LongestPrefix(tree, <<"a", "b", "c", "a">>).key = <<"a", "b", "c">>
    /\ ~LongestPrefix(tree, <<"b", "a", "b">>).found

\* C38: after every sequence of Insert and Delete, Size() is the number of
\* keys for which Get returns found.
C38_SizeCountsKeys ==
    tree.size = Cardinality({ k \in Keys : Get(tree, k).found })

(***************************************************************************)
(* The two pumps writing frames to the connection's buffered writer, one   *)
(* writer.Write call at a time                                             *)
(***************************************************************************)
Pumps == {"readPump", "writePump"}

\* The payloads of the pings the read pump answers.
PongPayloads == { <<1>> }

\* The messages the write pump takes from SendChan.
TextPayloads == { [i \in 1..126 |-> 3] }

WireInit ==
    /\ WireStart
    /\ HandshakeIdle
    /\ CodecIdle
    /\ AcceptIdle
    /\ TreeStart
    /\ MatchIdle
    /\ RouterNew
    /\ ServicesIdle

WireFrame ==
    UNCHANGED <<treeVars, matchVars, routerVars, serviceVars, handshakeVars,
                codecVars, acceptVars>>

\* A pump enters writeFrame: the calls of writer.Write it is going to make.
startFrame(pump, opcode, payload) ==
    [wire EXCEPT !.pending[pump] = writeFrameWrites(opcode, payload),
                 !.frames[pump] = @ + 1]

\* readPump read a ping and calls writeFrame(OpPong, payload).
readPumpPong ==
    \E payload \in PongPayloads :
        /\ wire.pending.readPump = <<>>
        /\ wire.frames.readPump < MaxWireFrames
        /\ wire' = startFrame("readPump", OpPong, payload)
        /\ WireFrame

\* writePump's select took a message or a tick and calls writeFrame with a
\* text frame or a ping.
writePumpWrites ==
    \E f \in { [opcode |-> OpText, payload |-> p] : p \in TextPayloads }
              \cup { [opcode |-> OpPing, payload |-> <<>>] } :
        /\ wire.writePump = "select"
        /\ wire.pending.writePump = <<>>
        /\ wire.frames.writePump < MaxWireFrames
        /\ wire' = startFrame("writePump", f.opcode, f.payload)
        /\ WireFrame

\* writePump's select found SendChan closed: it calls writeFrame(OpClose,
\* nil) and returns after it.
writePumpCloses ==
    /\ wire.writePump = "select"
    /\ wire.pending.writePump = <<>>
    /\ wire.frames.writePump < MaxWireFrames
    /\ wire' = [startFrame("writePump", OpClose, <<>>)
                  EXCEPT !.writePump = "closing"]
    /\ WireFrame

\* What one writer.Write call puts into the buffer.
Written(pump, bytes) ==
    [pump |-> pump, frame |-> wire.frames[pump], bytes |-> bytes]

\* One writer.Write call of a pump inside writeFrame runs on its own: its
\* bytes go to the end of the buffer.
writerWrite(pump) ==
    /\ wire.pending[pump] # <<>>
    /\ wire' = [wire EXCEPT
                  !.stream = Append(@, Written(pump, Head(wire.pending[pump]))),
                  !.pending[pump] = Tail(@),
                  !.writePump =
                      IF pump = "writePump" /\ @ = "closing"
                         /\ Len(wire.pending[pump]) = 1
                      THEN "returned" ELSE @]
    /\ WireFrame

\* A writer.Write call of each pump runs at the same time on the buffered
\* writer, which takes no lock: both copy at the same offset, and the
\* buffer keeps the bytes of one of them.
writerWriteRaced ==
    \E kept \in Pumps :
        /\ wire.pending.readPump # <<>>
        /\ wire.pending.writePump # <<>>
        /\ wire' = [wire EXCEPT
                      !.stream = Append(@, Written(kept,
                                                   Head(wire.pending[kept]))),
                      !.pending = [q \in Pumps |-> Tail(wire.pending[q])],
                      !.writePump =
                          IF @ = "closing" /\ Len(wire.pending.writePump) = 1
                          THEN "returned" ELSE @]
        /\ WireFrame

WireNext ==
    \/ readPumpPong
    \/ writePumpWrites
    \/ writePumpCloses
    \/ \E pump \in Pumps : writerWrite(pump)
    \/ writerWriteRaced

SpecWire == WireInit /\ [][WireNext]_vars

\* C26: the two pumps never interleave the bytes of two frames on the raw
\* stream: under every interleaving of the read pump's pong reply and the
\* write pump's text, ping and close frames, the header, length and payload
\* bytes of one frame are written contiguously before any byte of another
\* frame, and they are the bytes of that frame.
C26_FramesNotInterleaved ==
    \A i \in 1..Len(wire.stream) : \A k \in i..Len(wire.stream) :
        ( /\ wire.stream[i].pump = wire.stream[k].pump
          /\ wire.stream[i].frame = wire.stream[k].frame )
        => \A j \in i..k :
             /\ wire.stream[j].pump = wire.stream[i].pump
             /\ wire.stream[j].frame = wire.stream[i].frame

====
